---------------------------- MODULE Spec2Model ----------------------------
(***************************************************************************)
(* Model of the IRC log pipeline of scripts/irc-parser:                    *)
(*   chunk_sessions.py   chunk_session and its helpers  (ChunkSpec)        *)
(*                       should_split as a function     (SplitSpec)        *)
(*                       process_sessions               (ProcSpec)         *)
(*   parse_mirc_logs.py  parse_log_file/parse_directory (ParseFileSpec,    *)
(*                                    ParseDirSpec, ParseErrSpec)          *)
(*   ingest_to_qdrant.py ingest_chunks and its reruns   (IngestSpec)       *)
(*                                                                         *)
(* Representation of Python values:                                        *)
(*   None            the empty tuple <<>>; a present value v of an         *)
(*                   Optional field is the one-element tuple <<v>>         *)
(*   an "HH:MM" str  the pair <<hour, minute>> of its two integer fields   *)
(*                   (the empty string is EmptyStr, the empty tuple)       *)
(*   a message text  (chunker only) its number of characters               *)
(*   a datetime      minutes counted from midnight of the session date     *)
(*   a joined text   the sequence of its lines, CharLen gives its length   *)
(*   a raw log line  a string; a byte that is not ASCII is written <0xNN>, *)
(*                   a decoded character that is not ASCII <U+NNNN>        *)
(***************************************************************************)
EXTENDS Integers, Sequences, FiniteSets, TLC

VARIABLES
    \* ---- chunk_sessions.py: chunk_session(session) ----
    session,        \* the argument: a session record read from JSONL
    pc,             \* "start" | "loop" | "done": position in chunk_session
    session_date,   \* local: parsed session start, or None
    year,           \* local
    decade,         \* local
    i,              \* number of messages the for loop has consumed
    current_chunk,  \* local: buffered messages
    current_chars,  \* local: accumulated characters of the buffer
    chunk_index,    \* local
    chunks,         \* the sequence of Chunk objects yielded so far
    \* ---- chunk_sessions.py: process_sessions(input_file, output_file, min_messages) ----
    infile,         \* the lines of input_file
    proc_min_messages, \* the argument min_messages
    outfile,        \* the chunk records written to output_file
    total_sessions, \* local
    total_chunks,   \* local
    total_messages, \* local
    proc_pc,        \* "run": in the loop over the lines | "returned" | "raised"
    exception,      \* None, or Some(name) of the exception that left process_sessions
    \* ---- chunk_sessions.py: should_split(prev_msg, curr_msg, session_date) ----
    split_args,     \* <<prev_msg, curr_msg, session_date>> of one call
    split_result,   \* None before the call returns, then Some(returned value)
    \* ---- parse_mirc_logs.py: parse_directory(log_dir, output_file, min_messages) ----
    min_messages,   \* the argument
    ppc,            \* "dir": between files | "file": in the line loop of
                    \* parse_log_file | "end": parse_directory has returned
    log_files,      \* the files opened so far, [path, readable, encoding, raw,
                    \* content, eof]: raw is the lines consumed as they are
                    \* on disk, content the same lines as the loop sees them;
                    \* the last file is the one being parsed
    out,            \* the session records written to output_file
    stats,          \* the counters
    \* ---- parse_mirc_logs.py: parse_log_file(filepath) ----
    channel,        \* local, from extract_channel_info
    target_nick,    \* local
    network,        \* local
    current_session,\* local: None or the open Session
    session_count,  \* local
    participants,   \* local: set of nicks
    yielded,        \* the Session objects yielded so far, over all files
    \* ---- ingest_to_qdrant.py: ingest_chunks(..., input_file, ..., resume_from) ----
    chunk_count,    \* number of lines of input_file; the chunk at offset j
                    \* (from 0) is written j
    resume_from,    \* the argument of the current run
    processed,      \* local
    ing_pc,         \* "embed" | "upsert": in the loop over the batches |
                    \* "stopped": returned after an error | "complete"
    batch_start,    \* batch_iterator's i: index of the current batch in the
                    \* (sliced) list chunks
    embeddings,     \* local: the list built for the current batch; the
                    \* embedding of the text of chunk j is written j
    qdrant,         \* the points of the collection, [id, vector, payload]
    embedded,       \* the chunks whose text the current run sent to the
                    \* embedding API
    upserted,       \* the chunks the current run sent in a successful upsert
    reported,       \* None, or Some(n) of "Resume with --resume-from n"
    ingest_runs     \* the resume_from of every run so far, the current one last

chunkVars == <<session, pc, session_date, year, decade, i, current_chunk,
               current_chars, chunk_index, chunks>>
procVars == <<infile, proc_min_messages, outfile, total_sessions, total_chunks,
              total_messages, proc_pc, exception>>
splitVars == <<split_args, split_result>>
parseVars == <<min_messages, ppc, log_files, out, stats, channel, target_nick,
               network, current_session, session_count, participants, yielded>>
ingestVars == <<chunk_count, resume_from, processed, ing_pc, batch_start,
                embeddings, qdrant, embedded, upserted, reported, ingest_runs>>
vars == <<chunkVars, procVars, splitVars, parseVars, ingestVars>>

None == <<>>
Some(v) == <<v>>
Get(opt) == opt[1]
EmptyStr == <<>>

--------------------------------------------------------------------------
(* Configuration: chunk_sessions.py lines 32-34 *)

MAX_MESSAGES_PER_CHUNK == 20
MAX_CHARS_PER_CHUNK == 8000
TIME_GAP_MINUTES == 30

MinutesPerDay == 1440

--------------------------------------------------------------------------
(* Bounds of the inputs *)

\* longest exhaustive session: every sequence of pool messages up to this length
MaxShort == 3
\* longest regular run of messages (one message every `step` minutes)
MaxRun == 41

--------------------------------------------------------------------------
(* Helpers on sequences *)

Last(s) == s[Len(s)]

RECURSIVE SumSeq(_)
SumSeq(s) == IF s = <<>> THEN 0 ELSE s[1] + SumSeq(Tail(s))

\* sorted(...) of a set of nicks: Python orders str by code point
NickOrder == <<"al", "alice", "bob", "carol">>

Sorted(S) == SelectSeq(NickOrder, LAMBDA n : n \in S)

--------------------------------------------------------------------------
(* chunk_sessions.py: helper functions *)

parse_time_noDateCheck(time_str, date) ==
    IF time_str = EmptyStr
    THEN None
    ELSE IF time_str[1] \in 0..23 /\ time_str[2] \in 0..59
         THEN Some(time_str[1] * 60 + time_str[2])
         ELSE None

\* parse_time: None unless both arguments are set and hour/minute are in
\* range (datetime.replace raises ValueError otherwise, which is caught).
\* The result is the datetime on the session date, in minutes from midnight.
parse_time(time_str, date) ==
    IF time_str = EmptyStr \/ date = None
    THEN None
    ELSE IF time_str[1] \in 0..23 /\ time_str[2] \in 0..59
         THEN Some(time_str[1] * 60 + time_str[2])
         ELSE None

\* one formatted line f"{nick}: {text}"
FormatLine(msg) == [nick |-> msg.nick, text |-> msg.text]

LineLen(line) == Len(line.nick) + 2 + line.text

\* format_chunk_text: the lines joined with "\n"
format_chunk_text(msgs) == [k \in 1..Len(msgs) |-> FormatLine(msgs[k])]

\* len() of a newline-joined text: the lines plus one "\n" between neighbours
CharLen(text) ==
    IF text = <<>> THEN 0
    ELSE SumSeq([k \in 1..Len(text) |-> LineLen(text[k])]) + (Len(text) - 1)

get_year_and_decade_round(dt) ==
    IF dt = None THEN <<None, None>>
    ELSE <<Some(Get(dt).year), Some(<<((Get(dt).year + 5) \div 10) * 10, "s">>)>>

\* get_year_and_decade: (year, f"{(year // 10) * 10}s"), or (None, None)
get_year_and_decade(dt) ==
    IF dt = None THEN <<None, None>>
    ELSE <<Some(Get(dt).year), Some(<<(Get(dt).year \div 10) * 10, "s">>)>>

should_split_late(prev_msg, curr_msg, date) ==
    LET prev_time == parse_time(prev_msg.time, date)
        curr_time == parse_time(curr_msg.time, date)
    IN  IF prev_time = None \/ curr_time = None THEN FALSE
        ELSE LET rolled == IF Get(curr_time) < Get(prev_time)
                           THEN Get(curr_time) + MinutesPerDay
                           ELSE Get(curr_time)
             IN  rolled - Get(prev_time) >= TIME_GAP_MINUTES

should_split_norollover(prev_msg, curr_msg, date) ==
    LET prev_time == parse_time(prev_msg.time, date)
        curr_time == parse_time(curr_msg.time, date)
    IN  IF prev_time = None \/ curr_time = None THEN FALSE
        ELSE Get(curr_time) - Get(prev_time) > TIME_GAP_MINUTES
             \/ Get(prev_time) - Get(curr_time) > TIME_GAP_MINUTES

should_split(prev_msg, curr_msg, date) ==
    LET prev_time == parse_time(prev_msg.time, date)
        curr_time == parse_time(curr_msg.time, date)
    IN  IF prev_time = None \/ curr_time = None THEN FALSE
        ELSE LET rolled == IF Get(curr_time) < Get(prev_time)
                           THEN Get(curr_time) + MinutesPerDay
                           ELSE Get(curr_time)
             IN  rolled - Get(prev_time) > TIME_GAP_MINUTES

\* session.get('start_time') parsed by datetime.fromisoformat under
\* try/except: a missing, empty or malformed value leaves session_date None
ParseSessionDate(s) ==
    IF s.start_time = None THEN None
    ELSE IF Get(s.start_time).iso THEN Some([year |-> Get(s.start_time).year])
    ELSE None

MakeChunk_sessionParticipants(buffer, index) ==
    [ chunk_id      |-> <<session.session_id, "_chunk", index>>,
      session_id    |-> session.session_id,
      source_file   |-> session.source_file,
      channel       |-> session.channel,
      target_nick   |-> session.target_nick,
      network       |-> session.network,
      participants  |-> Sorted({session.messages[k].nick : k \in 1..Len(session.messages)}),
      start_time    |-> IF buffer # <<>> THEN Some(buffer[1].time) ELSE None,
      end_time      |-> IF buffer # <<>> THEN Some(Last(buffer).time) ELSE None,
      year          |-> year,
      decade        |-> decade,
      text          |-> format_chunk_text(buffer),
      message_count |-> Len(buffer),
      chunk_index   |-> index ]

\* the Chunk(...) constructor call of lines 175-190 and 209-224
MakeChunk(buffer, index) ==
    [ chunk_id      |-> <<session.session_id, "_chunk", index>>,
      session_id    |-> session.session_id,
      source_file   |-> session.source_file,
      channel       |-> session.channel,
      target_nick   |-> session.target_nick,
      network       |-> session.network,
      participants  |-> Sorted({buffer[k].nick : k \in 1..Len(buffer)}),
      start_time    |-> IF buffer # <<>> THEN Some(buffer[1].time) ELSE None,
      end_time      |-> IF buffer # <<>> THEN Some(Last(buffer).time) ELSE None,
      year          |-> year,
      decade        |-> decade,
      text          |-> format_chunk_text(buffer),
      message_count |-> Len(buffer),
      chunk_index   |-> index ]

\* session.get('messages', [])
SessionMessages(s) == IF s.has_messages THEN s.messages ELSE <<>>

messages == SessionMessages(session)

--------------------------------------------------------------------------
(* Inputs of chunk_session *)

Msg(t, n, x) == [time |-> t, nick |-> n, text |-> x]

\* Messages of the exhaustive short sessions: a day rollover (23:55 -> 00:10),
\* gaps of 16, 30, 31 minutes and a step back in time (10:00 -> 09:45), an
\* hour out of range, an empty time, and texts that are short, exactly half the
\* character budget once formatted with their newline ("bob: " + 3994 + 1 and
\* "al: " + 3995 + 1 are 4000 each), a little more than half, and longer than
\* the whole budget.
MsgPool ==
    { Msg(<<23, 55>>, "al",  10),
      Msg(<<0, 10>>,  "bob", 10),
      Msg(<<0, 26>>,  "al",  4100),
      Msg(<<0, 40>>,  "bob", 8100),
      Msg(<<10, 0>>,  "bob", 3994),
      Msg(<<9, 45>>,  "al",  10),
      Msg(<<99, 99>>, "bob", 10),
      Msg(EmptyStr,   "al",  3995) }

\* Regular runs: message k (from 0) is sent step*k minutes after 23:30 by
\* alternating nicks, all texts of one length.
RunVariants ==
    { [step |-> 1,  text |-> 10],
      [step |-> 30, text |-> 10],
      [step |-> 1,  text |-> 500] }

RunStart == 23 * 60 + 30

RunMsg(v, k) ==
    LET t == (RunStart + v.step * k) % MinutesPerDay
    IN  Msg(<<t \div 60, t % 60>>, IF k % 2 = 0 THEN "alice" ELSE "bob", v.text)

Run(v, n) == [k \in 1..n |-> RunMsg(v, k - 1)]

SeqsUpTo(S, n) == UNION { [1..m -> S] : m \in 0..n }

StartTimes ==
    { None,
      Some([iso |-> FALSE, year |-> 0]),
      Some([iso |-> TRUE, year |-> 2003]),
      Some([iso |-> TRUE, year |-> 1999]) }

SessionRecord(has, msgs, st) ==
    [ session_id   |-> "dm_0001",
      source_file  |-> "dm.EFnet.log",
      channel      |-> None,
      target_nick  |-> Some("dm"),
      network      |-> Some("EFnet"),
      start_time   |-> st,
      has_ids      |-> TRUE,
      has_messages |-> has,
      messages     |-> msgs ]

\* every short list of pool messages, and every regular run with at most one
\* pool message after it or before it
MessageLists ==
    SeqsUpTo(MsgPool, MaxShort)
    \cup { Run(v, n) \o tail : v \in RunVariants, n \in 1..MaxRun,
                               tail \in SeqsUpTo(MsgPool, 1) }
    \cup { head \o Run(v, n) : v \in RunVariants, n \in 1..MaxRun,
                               head \in SeqsUpTo(MsgPool, 1) }

SessionInputs ==
    { SessionRecord(TRUE, msgs, st) : msgs \in MessageLists, st \in StartTimes }
    \cup { SessionRecord(FALSE, <<>>, st) : st \in StartTimes }

--------------------------------------------------------------------------
(* chunk_session, lines 116-224 *)

ChunkInit ==
    /\ session \in SessionInputs
    /\ pc = "start"
    /\ session_date = None
    /\ year = None
    /\ decade = None
    /\ i = 0
    /\ current_chunk = <<>>
    /\ current_chars = 0
    /\ chunk_index = 0
    /\ chunks = <<>>

\* Chunk.to_dict: dataclasses.asdict, one key per field
Chunk_to_dict(c) ==
    [ chunk_id      |-> c.chunk_id,
      session_id    |-> c.session_id,
      source_file   |-> c.source_file,
      channel       |-> c.channel,
      target_nick   |-> c.target_nick,
      network       |-> c.network,
      participants  |-> c.participants,
      start_time    |-> c.start_time,
      end_time      |-> c.end_time,
      year          |-> c.year,
      decade        |-> c.decade,
      text          |-> c.text,
      message_count |-> c.message_count,
      chunk_index   |-> c.chunk_index ]

\* line 242: if chunk.message_count >= min_messages
KeepChunk(c) == c.message_count >= proc_min_messages

\* lines 242-245: the body of process_sessions' loop over the yielded chunks,
\* which runs at every yield before the generator goes on
WriteChunk(c) ==
    IF KeepChunk(c)
    THEN /\ outfile' = Append(outfile, Chunk_to_dict(c))
         /\ total_chunks' = total_chunks + 1
         /\ total_messages' = total_messages + c.message_count
    ELSE UNCHANGED <<outfile, total_chunks, total_messages>>

\* lines 118-141: the early return on no messages, then the locals; a
\* record with messages and no 'session_id' or 'source_file' key raises
\* KeyError at line 122 or 123, which nothing in process_sessions catches
ChunkStart ==
    /\ pc = "start"
    /\ proc_pc = "run"
    /\ IF messages = <<>>
       THEN /\ pc' = "done"
            /\ UNCHANGED <<session_date, year, decade, proc_pc, exception>>
       ELSE IF ~session.has_ids
       THEN /\ pc' = "done"
            /\ proc_pc' = "raised"
            /\ exception' = Some("KeyError")
            /\ UNCHANGED <<session_date, year, decade>>
       ELSE /\ pc' = "loop"
            /\ session_date' = ParseSessionDate(session)
            /\ year' = get_year_and_decade(ParseSessionDate(session))[1]
            /\ decade' = get_year_and_decade(ParseSessionDate(session))[2]
            /\ UNCHANGED <<proc_pc, exception>>
    /\ current_chunk' = <<>>
    /\ current_chars' = 0
    /\ chunk_index' = 0
    /\ UNCHANGED <<session, i, chunks, infile, proc_min_messages, outfile,
                   total_sessions, total_chunks, total_messages,
                   splitVars, parseVars, ingestVars>>

\* line 144-145: len(f"{nick}: {text}\n")
MsgChars(msg) == LineLen(FormatLine(msg)) + 1

ShouldStartNew_charsGe(buffer, chars, msg, date) ==
    \/ buffer # <<>> /\ should_split(Last(buffer), msg, date)
    \/ Len(buffer) >= MAX_MESSAGES_PER_CHUNK
    \/ chars + MsgChars(msg) >= MAX_CHARS_PER_CHUNK

ShouldStartNew_gt(buffer, chars, msg, date) ==
    \/ buffer # <<>> /\ should_split(Last(buffer), msg, date)
    \/ Len(buffer) > MAX_MESSAGES_PER_CHUNK
    \/ chars + MsgChars(msg) > MAX_CHARS_PER_CHUNK

ShouldStartNew_early(buffer, chars, msg, date) ==
    \/ buffer # <<>> /\ should_split(Last(buffer), msg, date)
    \/ Len(buffer) >= MAX_MESSAGES_PER_CHUNK - 1
    \/ chars + MsgChars(msg) > MAX_CHARS_PER_CHUNK

\* lines 148-158: the three reasons to start a new chunk before msg
ShouldStartNew(buffer, chars, msg, date) ==
    \/ buffer # <<>> /\ should_split(Last(buffer), msg, date)
    \/ Len(buffer) >= MAX_MESSAGES_PER_CHUNK
    \/ chars + MsgChars(msg) > MAX_CHARS_PER_CHUNK

ShouldEmit_unguarded(should_start_new, buffer) == should_start_new

\* line 161: if should_start_new and current_chunk
ShouldEmit(should_start_new, buffer) == should_start_new /\ buffer # <<>>

\* lines 143-199: one iteration of the for loop
ChunkLoop ==
    /\ pc = "loop"
    /\ proc_pc = "run"
    /\ i < Len(messages)
    /\ LET msg == messages[i + 1]
           flush == ShouldEmit(ShouldStartNew(current_chunk, current_chars,
                                              msg, session_date),
                               current_chunk)
       IN  IF flush
           THEN /\ chunks' = Append(chunks, MakeChunk(current_chunk, chunk_index))
                /\ WriteChunk(MakeChunk(current_chunk, chunk_index))
                /\ current_chunk' = <<msg>>
                /\ current_chars' = MsgChars(msg)
                /\ chunk_index' = chunk_index + 1
           ELSE /\ chunks' = chunks
                /\ current_chunk' = Append(current_chunk, msg)
                /\ current_chars' = current_chars + MsgChars(msg)
                /\ chunk_index' = chunk_index
                /\ UNCHANGED <<outfile, total_chunks, total_messages>>
    /\ i' = i + 1
    /\ UNCHANGED <<session, pc, session_date, year, decade, infile,
                   proc_min_messages, total_sessions, proc_pc, exception,
                   splitVars, parseVars, ingestVars>>

ChunkFinish_forgets ==
    /\ pc = "loop"
    /\ i = Len(messages)
    /\ pc' = "done"
    /\ UNCHANGED <<session, session_date, year, decade, i, current_chunk,
                   current_chars, chunk_index, chunks, procVars,
                   splitVars, parseVars, ingestVars>>

\* lines 201-224: the last chunk, then the generator is exhausted
ChunkFinish ==
    /\ pc = "loop"
    /\ proc_pc = "run"
    /\ i = Len(messages)
    /\ IF current_chunk # <<>>
       THEN /\ chunks' = Append(chunks, MakeChunk(current_chunk, chunk_index))
            /\ WriteChunk(MakeChunk(current_chunk, chunk_index))
       ELSE UNCHANGED <<chunks, outfile, total_chunks, total_messages>>
    /\ pc' = "done"
    /\ UNCHANGED <<session, session_date, year, decade, i, current_chunk,
                   current_chars, chunk_index, infile, proc_min_messages,
                   total_sessions, proc_pc, exception,
                   splitVars, parseVars, ingestVars>>

ChunkNext == ChunkStart \/ ChunkLoop \/ ChunkFinish

\* chunk_session is not running (the other specifications)
ChunkIdle ==
    /\ session = SessionRecord(FALSE, <<>>, None)
    /\ pc = "done"
    /\ session_date = None
    /\ year = None
    /\ decade = None
    /\ i = 0
    /\ current_chunk = <<>>
    /\ current_chars = 0
    /\ chunk_index = 0
    /\ chunks = <<>>

--------------------------------------------------------------------------
(* process_sessions, lines 227-255 *)

\* json.loads(line): None stands for JSONDecodeError
json_loads(line) == IF line.json THEN Some(line.record) ELSE None

ReadRecord_skipsBad ==
    /\ proc_pc = "run"
    /\ pc = "done"
    /\ total_sessions < Len(infile)
    /\ LET loaded == json_loads(infile[total_sessions + 1])
       IN  IF loaded = None \/ (SessionMessages(Get(loaded)) # <<>> /\ ~Get(loaded).has_ids)
           THEN /\ session' = SessionRecord(FALSE, <<>>, None)
                /\ pc' = "done"
           ELSE /\ session' = Get(loaded)
                /\ pc' = "start"
    /\ total_sessions' = total_sessions + 1
    /\ UNCHANGED <<proc_pc, exception, session_date, year, decade, current_chunk,
                   current_chars, chunk_index>>
    /\ i' = 0
    /\ chunks' = <<>>
    /\ UNCHANGED <<infile, proc_min_messages, outfile, total_chunks,
                   total_messages, splitVars, parseVars, ingestVars>>

\* lines 237-241: the next line of the input is loaded and a generator is
\* made for it (its body starts at the first next()); a line that is no JSON
\* raises JSONDecodeError, which nothing catches
ReadRecord ==
    /\ proc_pc = "run"
    /\ pc = "done"
    /\ total_sessions < Len(infile)
    /\ LET loaded == json_loads(infile[total_sessions + 1])
       IN  IF loaded = None
           THEN /\ proc_pc' = "raised"
                /\ exception' = Some("JSONDecodeError")
                /\ UNCHANGED <<session, pc, total_sessions, i, chunks>>
           ELSE /\ session' = Get(loaded)
                /\ total_sessions' = total_sessions + 1
                /\ pc' = "start"
                /\ i' = 0
                /\ chunks' = <<>>
                /\ UNCHANGED <<proc_pc, exception>>
    /\ UNCHANGED <<session_date, year, decade, current_chunk, current_chars,
                   chunk_index, infile, proc_min_messages, outfile, total_chunks,
                   total_messages, splitVars, parseVars, ingestVars>>

\* lines 251-255: the summary; the average of line 255 divides by
\* total_chunks
ProcFinish ==
    /\ proc_pc = "run"
    /\ pc = "done"
    /\ total_sessions = Len(infile)
    /\ IF total_chunks = 0
       THEN proc_pc' = "raised" /\ exception' = Some("ZeroDivisionError")
       ELSE proc_pc' = "returned" /\ exception' = None
    /\ UNCHANGED <<chunkVars, infile, proc_min_messages, outfile, total_sessions,
                   total_chunks, total_messages, splitVars, parseVars, ingestVars>>

ProcNext == ReadRecord \/ ChunkStart \/ ChunkLoop \/ ChunkFinish \/ ProcFinish

\* process_sessions has read the one line that holds `session` and has made
\* the generator (ChunkSpec)
ProcOneSession ==
    /\ infile = <<[json |-> TRUE, record |-> session]>>
    /\ proc_min_messages = 3
    /\ outfile = <<>>
    /\ total_sessions = 1
    /\ total_chunks = 0
    /\ total_messages = 0
    /\ proc_pc = "run"
    /\ exception = None

\* process_sessions is not running (the other specifications)
ProcIdle ==
    /\ infile = <<>>
    /\ proc_min_messages = 3
    /\ outfile = <<>>
    /\ total_sessions = 0
    /\ total_chunks = 0
    /\ total_messages = 0
    /\ proc_pc = "returned"
    /\ exception = None

(* Inputs of process_sessions *)

\* most lines of the input file
MaxRecords == 3

ProcDate == Some([iso |-> TRUE, year |-> 2003])

ProcSession(id, ids, has, msgs) ==
    [SessionRecord(has, msgs, ProcDate) EXCEPT !.session_id = id, !.has_ids = ids]

\* three messages one minute apart from hour h
Burst(h) == << Msg(<<h, 0>>, "al", 10), Msg(<<h, 1>>, "bob", 10), Msg(<<h, 2>>, "al", 10) >>

Lone(h) == << Msg(<<h, 0>>, "bob", 10) >>

JsonLine(rec) == [json |-> TRUE, record |-> rec]

\* a line that is no JSON (a blank line, a truncated record)
NotJsonLine == [json |-> FALSE, record |-> SessionRecord(FALSE, <<>>, None)]

\* sessions with no messages (with and without the field), one message, one
\* chunk of three, a lone message followed after an hour by three, three -
\* one - three; records without session_id/source_file, with and without
\* messages; and a line that is no JSON
ProcLinePool ==
    { JsonLine(ProcSession("a_0001", TRUE, TRUE, <<>>)),
      JsonLine(ProcSession("b_0001", TRUE, TRUE, Lone(9))),
      JsonLine(ProcSession("c_0001", TRUE, TRUE, Burst(9))),
      JsonLine(ProcSession("d_0001", TRUE, TRUE, Lone(9) \o Burst(11))),
      JsonLine(ProcSession("e_0001", TRUE, TRUE, Burst(9) \o Lone(11) \o Burst(13))),
      JsonLine(ProcSession("f_0001", FALSE, TRUE, Burst(9))),
      JsonLine(ProcSession("g_0001", FALSE, FALSE, <<>>)),
      NotJsonLine }

\* the input files: up to MaxRecords lines, no line twice (the parser gives
\* every session of one run its own session_id)
ProcStreams ==
    { st \in SeqsUpTo(ProcLinePool, MaxRecords) :
         \A a, b \in 1..Len(st) : a # b => st[a] # st[b] }

ProcInit ==
    /\ infile \in ProcStreams
    /\ proc_min_messages \in 0..3
    /\ outfile = <<>>
    /\ total_sessions = 0
    /\ total_chunks = 0
    /\ total_messages = 0
    /\ proc_pc = "run"
    /\ exception = None

--------------------------------------------------------------------------
(* should_split as a function, lines 100-113: one call on drawn arguments *)

\* every "H:MM" the hour and minute fields can hold around the valid range,
\* and the empty string
SplitTimes == { <<h, m>> : h \in 0..24, m \in 0..60 } \cup { EmptyStr }

SplitPrevTimes == { <<0, 0>>, <<10, 0>>, <<12, 30>>, <<23, 55>>, <<24, 0>>, EmptyStr }

SplitDates == { None, Some([year |-> 2003]) }

SplitInit ==
    /\ split_args \in { <<Msg(p, "al", 10), Msg(c, "bob", 10), d>> :
                          p \in SplitPrevTimes, c \in SplitTimes, d \in SplitDates }
    /\ split_result = None

SplitIdle == split_args = <<>> /\ split_result = None

ShouldSplitCall ==
    /\ split_args # <<>>
    /\ split_result = None
    /\ split_result' = Some(should_split(split_args[1], split_args[2], split_args[3]))
    /\ UNCHANGED <<split_args, chunkVars, procVars, parseVars, ingestVars>>

SplitNext == ShouldSplitCall

--------------------------------------------------------------------------
(* parse_mirc_logs.py: the lines and file names of the inputs, and what the
   patterns of lines 47-73 and the helpers of lines 117-185 make of them.
   A log line is a string; the patterns are tabulated on the lines below.
   "<U+2605>" stands for the one character U+2605 (a star), which noise
   pattern 1 accepts and strip_mirc_codes keeps. *)

L_START        == "Session Start: Tue Dec 09 18:27:34 2003"
L_START_BAD    == "Session Start: sometime"
L_CLOSE        == "Session Close: Tue Dec 09 19:06:00 2003"
L_CLOSE_BAD    == "Session Close: whenever"
L_IDENT        == "Session Ident: carol"
L_IDENT_HASH   == "Session Ident: #chan"
L_IDENT_AT     == "Session Ident: @ops"
L_IDENT_STATUS == "Session Ident: Status"
L_IDENT_WINDOW == "Session Ident: Window"
L_OTHER        == "[18:30] [alice] hello"
L_SELF         == "[19:05] (bob) hi there"
L_OTHER_CAROL  == "[19:07] [carol] hey"
L_NOISE        == "*** Disconnected"
L_NOISE_MSG    == "[18:32] [alice] <U+2605> joins"
L_BLANK        == ""
L_UNKNOWN      == "random text"
L_NO_TEXT      == "[18:30] [alice]  "
\* on disk: a message whose text ends with the single byte 0xE9 (e acute in
\* cp1252 and latin-1, not valid UTF-8); then what the codecs make of it
L_CP1252       == "[18:30] [alice] caf<0xE9>"
L_REPLACED     == "[18:30] [alice] caf<U+FFFD>"
L_EACUTE       == "[18:30] [alice] caf<U+00E9>"

\* line 199
encodings == <<"utf-8", "cp1252", "latin-1", "iso-8859-1">>

\* line 204: the error handler every open() is given
errors == "replace"

\* the bytes of the line are a valid text of the encoding
ValidIn(raw, encoding) == ~(raw = L_CP1252 /\ encoding = "utf-8")

\* what the text layer of open(..., encoding, errors='replace') returns for
\* the bytes of one line: an undecodable byte comes out as U+FFFD
decode(raw, encoding) ==
    CASE raw = L_CP1252 /\ encoding = "utf-8" -> L_REPLACED
      [] raw = L_CP1252                       -> L_EACUTE
      [] OTHER                                -> raw

\* readlines() raises UnicodeDecodeError: only a strict handler raises on
\* undecodable bytes, 'replace' substitutes for them
RaisesUnicodeDecodeError(encoding, handler) ==
    handler = "strict" /\ encoding \in {"utf-8", "cp1252"}

\* lines 202-208: the first encoding, from position k, whose read does not
\* raise, or None (content stays None)
RECURSIVE TryEncodings(_)
TryEncodings(k) ==
    IF k > Len(encodings) THEN None
    ELSE IF RaisesUnicodeDecodeError(encodings[k], errors) THEN TryEncodings(k + 1)
    ELSE Some(encodings[k])

\* SESSION_START_PATTERN.match(line): None or Some(group(1))
SESSION_START_PATTERN(line) ==
    CASE line = L_START     -> Some("Tue Dec 09 18:27:34 2003")
      [] line = L_START_BAD -> Some("sometime")
      [] OTHER              -> None

SESSION_CLOSE_PATTERN_never(line) == None

\* SESSION_CLOSE_PATTERN.match(line): None or Some(group(1))
SESSION_CLOSE_PATTERN(line) ==
    CASE line = L_CLOSE     -> Some("Tue Dec 09 19:06:00 2003")
      [] line = L_CLOSE_BAD -> Some("whenever")
      [] OTHER              -> None

\* SESSION_IDENT_PATTERN.match(line): None or Some(group(1))
SESSION_IDENT_PATTERN(line) ==
    CASE line = L_IDENT        -> Some("carol")
      [] line = L_IDENT_HASH   -> Some("#chan")
      [] line = L_IDENT_AT     -> Some("@ops")
      [] line = L_IDENT_STATUS -> Some("Status")
      [] line = L_IDENT_WINDOW -> Some("Window")
      [] OTHER                 -> None

\* str.startswith('#') on the names and identities of the inputs
StartsWithHash(str) == str \in {"#chan", "#chan.EFnet", "#1009689464"}

\* str.startswith('@')
StartsWithAt(str) == str \in {"@ops", "@ops.EFnet"}

\* strip_mirc_codes: control codes and decorations removed, then .strip()
strip_mirc_codes(text) ==
    CASE text = L_NO_TEXT -> "[18:30] [alice]"
      [] OTHER            -> text

\* some pattern of NOISE_PATTERNS matches the cleaned line
NoisePatternMatches(cleaned) == cleaned \in {L_NOISE, L_NOISE_MSG, L_BLANK}

is_noise_line(line) == NoisePatternMatches(strip_mirc_codes(line))

\* OTHER_USER_MSG_PATTERN.match(cleaned): None or Some(<<time, nick, text>>)
OTHER_USER_MSG_PATTERN(cleaned) ==
    CASE cleaned = L_OTHER       -> Some(<< <<18, 30>>, "alice", "hello" >>)
      [] cleaned = L_OTHER_CAROL -> Some(<< <<19, 7>>, "carol", "hey" >>)
      [] cleaned = L_NOISE_MSG   -> Some(<< <<18, 32>>, "alice", "<U+2605> joins" >>)
      [] cleaned = L_CP1252      -> Some(<< <<18, 30>>, "alice", "caf<0xE9>" >>)
      [] cleaned = L_REPLACED    -> Some(<< <<18, 30>>, "alice", "caf<U+FFFD>" >>)
      [] cleaned = L_EACUTE      -> Some(<< <<18, 30>>, "alice", "caf<U+00E9>" >>)
      [] OTHER                   -> None

\* YOUR_MSG_PATTERN.match(cleaned): None or Some(<<time, nick, text>>)
YOUR_MSG_PATTERN(cleaned) ==
    CASE cleaned = L_SELF -> Some(<< <<19, 5>>, "bob", "hi there" >>)
      [] OTHER            -> None

\* str.strip() of a matched text: the texts above have no outer blanks
StripText(text) == text

parse_datetime_epoch(date_str) ==
    CASE date_str = "Tue Dec 09 18:27:34 2003" ->
            Some([year |-> 2003, md |-> <<12, 9>>, hms |-> <<18, 27, 34>>])
      [] date_str = "Tue Dec 09 19:06:00 2003" ->
            Some([year |-> 2003, md |-> <<12, 9>>, hms |-> <<19, 6, 0>>])
      [] OTHER -> Some([year |-> 1970, md |-> <<1, 1>>, hms |-> <<0, 0, 0>>])

\* parse_datetime: the first layout that parses, else None
parse_datetime(date_str) ==
    CASE date_str = "Tue Dec 09 18:27:34 2003" ->
            Some([year |-> 2003, md |-> <<12, 9>>, hms |-> <<18, 27, 34>>])
      [] date_str = "Tue Dec 09 19:06:00 2003" ->
            Some([year |-> 2003, md |-> <<12, 9>>, hms |-> <<19, 6, 0>>])
      [] OTHER -> None

\* Path(filename).stem
Stem(filename) ==
    CASE filename = "#chan.EFnet.log"  -> "#chan.EFnet"
      [] filename = "dm.EFnet.log"     -> "dm.EFnet"
      [] filename = "@ops.EFnet.log"   -> "@ops.EFnet"
      [] filename = "#1009689464.log"  -> "#1009689464"
      [] filename = "carol.log"        -> "carol"

\* base.rsplit('.', 1) with the test of lines 176-180: <<name, network>>
SplitNetwork(base) ==
    CASE base = "#chan.EFnet" -> <<"#chan", Some("EFnet")>>
      [] base = "dm.EFnet"    -> <<"dm", Some("EFnet")>>
      [] base = "@ops.EFnet"  -> <<"@ops", Some("EFnet")>>
      [] OTHER                -> <<base, None>>

extract_channel_info_hashOnly(filename) ==
    LET base == Stem(filename)
        is_channel == StartsWithHash(base)
        name == SplitNetwork(base)[1]
    IN  << IF is_channel THEN Some(name) ELSE None,
           IF ~is_channel THEN Some(name) ELSE None,
           SplitNetwork(base)[2] >>

\* extract_channel_info: <<channel, target_nick, network>>
extract_channel_info(filename) ==
    LET base == Stem(filename)
        is_channel == StartsWithHash(base) \/ StartsWithAt(base)
        name == SplitNetwork(base)[1]
    IN  << IF is_channel THEN Some(name) ELSE None,
           IF ~is_channel THEN Some(name) ELSE None,
           SplitNetwork(base)[2] >>

\* the decimal digits of n >= 0, most significant first
RECURSIVE Digits(_)
Digits(n) == IF n < 10 THEN <<n>> ELSE Append(Digits(n \div 10), n % 10)

\* the format ":04d": zeros on the left up to four digits, longer numbers
\* stay whole
RECURSIVE ZeroPad(_, _)
ZeroPad(ds, width) == IF Len(ds) >= width THEN ds ELSE ZeroPad(<<0>> \o ds, width)

FormatSessionId_noCount(stem, count) == <<stem, "_", ZeroPad(Digits(0), 4)>>

\* line 228: f"{Path(filepath).stem}_{session_count:04d}"
FormatSessionId(stem, count) == <<stem, "_", ZeroPad(Digits(count), 4)>>

\* Session.to_dict, lines 104-110
isoformat(dt) == [iso |-> TRUE, year |-> dt.year, md |-> dt.md, hms |-> dt.hms]

to_dict(s) ==
    [ session_id    |-> s.session_id,
      source_file   |-> s.source_file,
      channel       |-> s.channel,
      target_nick   |-> s.target_nick,
      start_time    |-> IF s.start_time # None
                        THEN Some(isoformat(Get(s.start_time))) ELSE None,
      end_time      |-> IF s.end_time # None
                        THEN Some(isoformat(Get(s.end_time))) ELSE None,
      participants  |-> s.participants,
      messages      |-> s.messages,
      network       |-> s.network,
      message_count |-> Len(s.messages) ]

--------------------------------------------------------------------------
(* parse_log_file, lines 188-303, driven by parse_directory, lines 306-338 *)

ParseInit ==
    /\ ppc = "dir"
    /\ log_files = <<>>
    /\ out = <<>>
    /\ stats = [sessions |-> 0, messages |-> 0, skipped_short |-> 0, errors |-> 0]
    /\ channel = None
    /\ target_nick = None
    /\ network = None
    /\ current_session = None
    /\ session_count = 0
    /\ participants = {}
    /\ yielded = <<>>

\* parse_directory is not running (the other specifications)
ParseIdle == min_messages = 2 /\ ParseInit

filepath == Last(log_files).path

\* line 205: the line the loop gets for the bytes raw of the open file
DecodedLine(raw) == decode(raw, Get(Last(log_files).encoding))

content == Last(log_files).content

Consume_gt(s) ==
    IF Len(s.messages) > min_messages
    THEN /\ out' = Append(out, to_dict(s))
         /\ stats' = [stats EXCEPT !.sessions = @ + 1,
                                   !.messages = @ + Len(s.messages)]
    ELSE /\ out' = out
         /\ stats' = [stats EXCEPT !.skipped_short = @ + 1]

\* lines 323-328: the body of parse_directory's loop over the yielded sessions
Consume(s) ==
    IF Len(s.messages) >= min_messages
    THEN /\ out' = Append(out, to_dict(s))
         /\ stats' = [stats EXCEPT !.sessions = @ + 1,
                                   !.messages = @ + Len(s.messages)]
    ELSE /\ out' = out
         /\ stats' = [stats EXCEPT !.skipped_short = @ + 1]

ShouldYield_anyOpen(cs) == cs # None

ShouldYield_twoOrMore(cs) == cs # None /\ Len(Get(cs).messages) >= 2

\* lines 221 and 298: if current_session and current_session.messages
ShouldYield(cs) == cs # None /\ Get(cs).messages # <<>>

\* lines 222-223 and 299-300: set the participants, yield; the consumer's
\* loop body runs before the generator goes on
YieldIfAny ==
    IF ShouldYield(current_session)
    THEN LET s == [Get(current_session) EXCEPT !.participants = Sorted(participants)]
         IN  yielded' = Append(yielded, s) /\ Consume(s)
    ELSE UNCHANGED <<yielded, out, stats>>

ParseMessage_noNoiseCheck(line) ==
    LET cleaned == strip_mirc_codes(line)
        other == OTHER_USER_MSG_PATTERN(cleaned)
        your == YOUR_MSG_PATTERN(cleaned)
        m == IF other # None THEN other ELSE your
        msg == [ time |-> Get(m)[1], nick |-> Get(m)[2],
                 text |-> StripText(Get(m)[3]), is_self |-> other = None ]
    IN  IF m = None THEN None
        ELSE IF msg.text # "" THEN Some(msg) ELSE None

\* lines 262-295 for a line that reaches them: None when the line is noise,
\* matches neither message pattern or has an empty text, else Some(Message)
ParseMessage(line) ==
    IF is_noise_line(line) THEN None
    ELSE LET cleaned == strip_mirc_codes(line)
             other == OTHER_USER_MSG_PATTERN(cleaned)
             your == YOUR_MSG_PATTERN(cleaned)
             m == IF other # None THEN other ELSE your
             msg == [ time |-> Get(m)[1], nick |-> Get(m)[2],
                      text |-> StripText(Get(m)[3]), is_self |-> other = None ]
         IN  IF m = None THEN None
             ELSE IF msg.text # "" THEN Some(msg) ELSE None

NewSession_keepsTarget(path, count, chan, target, net, start) ==
    [ session_id   |-> FormatSessionId(Stem(path), count),
      source_file  |-> path,
      channel      |-> chan,
      target_nick  |-> IF current_session # None
                       THEN Get(current_session).target_nick ELSE target,
      start_time   |-> start,
      end_time     |-> None,
      participants |-> <<>>,
      messages     |-> <<>>,
      network      |-> net ]

\* lines 228-240: the Session a start marker opens
NewSession(path, count, chan, target, net, start) ==
    [ session_id   |-> FormatSessionId(Stem(path), count),
      source_file  |-> path,
      channel      |-> chan,
      target_nick  |-> target,
      start_time   |-> start,
      end_time     |-> None,
      participants |-> <<>>,
      messages     |-> <<>>,
      network      |-> net ]

FreshParticipants_keeps(prev) == prev

\* line 241: the accumulator of nicks after a start marker
FreshParticipants(prev) == {}

InitialSession_open(f) ==
    Some(NewSession(f, 0, extract_channel_info(f)[1], extract_channel_info(f)[2],
                    extract_channel_info(f)[3], None))

\* line 193: current_session before the first line of the file
InitialSession(f) == None

LogFile(f, ok, enc, done) ==
    [path |-> f, readable |-> ok, encoding |-> enc, raw |-> <<>>,
     content |-> <<>>, eof |-> done]

\* lines 316-322 and 191-212: parse_directory takes the next file and
\* parse_log_file starts on it; the file can be opened and read
OpenFile(f) ==
    /\ ppc = "dir"
    /\ \A k \in 1..Len(log_files) : log_files[k].path # f
    /\ LET enc == TryEncodings(1)
       IN  IF enc # None
           THEN /\ log_files' = Append(log_files, LogFile(f, TRUE, enc, FALSE))
                /\ ppc' = "file"
           ELSE \* lines 210-212: a warning, and the generator returns
                /\ log_files' = Append(log_files, LogFile(f, TRUE, None, TRUE))
                /\ ppc' = "dir"
    /\ channel' = extract_channel_info(f)[1]
    /\ target_nick' = extract_channel_info(f)[2]
    /\ network' = extract_channel_info(f)[3]
    /\ current_session' = InitialSession(f)
    /\ session_count' = 0
    /\ participants' = {}
    /\ UNCHANGED <<min_messages, out, stats, yielded, chunkVars, procVars, splitVars, ingestVars>>

\* lines 214-295: one iteration of the loop over the lines; raw is the next
\* line of the file as it is on disk, line what readlines() returned for it
ReadLine(raw) ==
    /\ ppc = "file"
    /\ log_files' = [log_files EXCEPT
                       ![Len(log_files)].raw = Append(@, raw),
                       ![Len(log_files)].content = Append(@, DecodedLine(raw))]
    /\ LET line == DecodedLine(raw)
           start == SESSION_START_PATTERN(line)
           close == SESSION_CLOSE_PATTERN(line)
           ident == SESSION_IDENT_PATTERN(line)
       IN  IF start # None
           THEN /\ YieldIfAny
                /\ session_count' = session_count + 1
                /\ current_session' = Some(
                      NewSession(filepath, session_count + 1, channel, target_nick,
                                 network, parse_datetime(Get(start))))
                /\ participants' = FreshParticipants(participants)
           ELSE IF close # None /\ current_session # None
           THEN /\ current_session' = Some([Get(current_session) EXCEPT
                                            !.end_time = parse_datetime(Get(close))])
                /\ UNCHANGED <<session_count, participants, yielded, out, stats>>
           ELSE IF ident # None /\ current_session # None /\ channel = None
           THEN /\ current_session' =
                      IF ~StartsWithHash(Get(ident)) /\ Get(ident) \notin {"Status", "Window"}
                      THEN Some([Get(current_session) EXCEPT !.target_nick = ident])
                      ELSE current_session
                /\ UNCHANGED <<session_count, participants, yielded, out, stats>>
           ELSE IF current_session = None
           THEN UNCHANGED <<current_session, session_count, participants,
                            yielded, out, stats>>
           ELSE LET m == ParseMessage(line)
                IN  /\ current_session' =
                          IF m # None
                          THEN Some([Get(current_session) EXCEPT
                                     !.messages = Append(@, Get(m))])
                          ELSE current_session
                    /\ participants' = IF m # None
                                       THEN participants \cup {Get(m).nick}
                                       ELSE participants
                    /\ UNCHANGED <<session_count, yielded, out, stats>>
    /\ UNCHANGED <<min_messages, ppc, channel, target_nick, network,
                   chunkVars, procVars, splitVars, ingestVars>>

OpenFails_aborts(f) ==
    /\ ppc = "dir"
    /\ \A k \in 1..Len(log_files) : log_files[k].path # f
    /\ log_files' = Append(log_files, LogFile(f, FALSE, None, TRUE))
    /\ ppc' = "end"
    /\ channel' = extract_channel_info(f)[1]
    /\ target_nick' = extract_channel_info(f)[2]
    /\ network' = extract_channel_info(f)[3]
    /\ current_session' = None
    /\ session_count' = 0
    /\ participants' = {}
    /\ UNCHANGED <<min_messages, out, stats, yielded, chunkVars, procVars, splitVars, ingestVars>>

\* lines 191-204 and 302-303 for a file that cannot be opened or read (no
\* permission, a directory named *.log, an I/O error): open() or readlines()
\* raises OSError, which is no UnicodeDecodeError; the handler of line 302
\* prints it and the generator ends without a session. parse_directory sees
\* an exhausted generator and takes the next file; line 332 is not reached.
OpenFails(f) ==
    /\ ppc = "dir"
    /\ \A k \in 1..Len(log_files) : log_files[k].path # f
    /\ log_files' = Append(log_files, LogFile(f, FALSE, None, TRUE))
    /\ ppc' = "dir"
    /\ channel' = extract_channel_info(f)[1]
    /\ target_nick' = extract_channel_info(f)[2]
    /\ network' = extract_channel_info(f)[3]
    /\ current_session' = None
    /\ session_count' = 0
    /\ participants' = {}
    /\ UNCHANGED <<min_messages, out, stats, yielded, chunkVars, procVars, splitVars, ingestVars>>

EndOfFile_forgets ==
    /\ ppc = "file"
    /\ log_files' = [log_files EXCEPT ![Len(log_files)].eof = TRUE]
    /\ ppc' = "dir"
    /\ UNCHANGED <<min_messages, channel, target_nick, network, current_session,
                   session_count, participants, yielded, out, stats,
                   chunkVars, procVars, splitVars, ingestVars>>

\* lines 297-300: the last session, then the generator is exhausted and
\* parse_directory goes on to the next file
EndOfFile ==
    /\ ppc = "file"
    /\ YieldIfAny
    /\ log_files' = [log_files EXCEPT ![Len(log_files)].eof = TRUE]
    /\ ppc' = "dir"
    /\ UNCHANGED <<min_messages, channel, target_nick, network, current_session,
                   session_count, participants, chunkVars, procVars, splitVars, ingestVars>>

\* lines 334-338: no file is left, the summary is printed
DirFinish ==
    /\ ppc = "dir"
    /\ ppc' = "end"
    /\ UNCHANGED <<min_messages, log_files, out, stats, channel, target_nick,
                   network, current_session, session_count, participants,
                   yielded, chunkVars, procVars, splitVars, ingestVars>>

--------------------------------------------------------------------------
(* ingest_to_qdrant.py: ingest_chunks, lines 140-236, and its reruns *)

\* lines 47-48
BATCH_SIZE == 100
EMBEDDING_BATCH_SIZE == 50

\* most lines of the chunk file: two full batches and one more chunk
MaxChunks == 201
\* most runs of ingest_chunks on one file
MaxRuns == 3

Min(a, b) == IF a < b THEN a ELSE b

\* the Python slice items[a:b] for 0 <= a <= b
Slice(items, a, b) == SubSeq(items, a + 1, Min(b, Len(items)))

\* lines 151-154: the list chunks as loaded, the chunk at offset j written j
LoadedChunks == [k \in 1..chunk_count |-> k - 1]

\* lines 160-161: the list chunks the loop works on
RemainingChunks ==
    IF resume_from > 0 THEN Slice(LoadedChunks, resume_from, chunk_count)
    ELSE LoadedChunks

\* batch_iterator, lines 64-67: the batch that starts at index start
batch_iterator(items, start, batch_size) == Slice(items, start, start + batch_size)

\* line 168: the batch of the current iteration
batch == batch_iterator(RemainingChunks, batch_start, BATCH_SIZE)

\* lines 170 and 174: the texts of the next embedding call; every earlier
\* call of this batch has added one embedding per text
text_batch == batch_iterator(batch, Len(embeddings), EMBEDDING_BATCH_SIZE)

PointId_batchLocal(done, idx) == idx + 1

\* line 187: point_id = processed + i + 1
PointId(done, idx) == done + idx + 1

\* lines 185-209: the points of zip(batch, embeddings)
points ==
    { [ id      |-> PointId(processed, k - 1),
        vector  |-> embeddings[k],
        payload |-> batch[k] ] : k \in 1..Min(Len(batch), Len(embeddings)) }

\* what an upsert leaves in the collection: a point replaces the one of the
\* same id
Upserted(collection, pts) ==
    { q \in collection : \A pt \in pts : pt.id # q.id } \cup pts

\* lines 149-166: the file is loaded, the resume point skipped
IngestStart ==
    /\ ing_pc = "load"
    /\ processed' = resume_from
    /\ batch_start' = 0
    /\ embeddings' = <<>>
    /\ ing_pc' = IF RemainingChunks = <<>> THEN "complete" ELSE "embed"
    /\ UNCHANGED <<chunk_count, resume_from, qdrant, embedded, upserted,
                   reported, ingest_runs, chunkVars, procVars, splitVars, parseVars>>

\* lines 174-177: one call of get_embeddings that returns
EmbedOk ==
    /\ ing_pc = "embed"
    /\ embeddings' = embeddings \o text_batch
    /\ embedded' = embedded \cup { text_batch[k] : k \in 1..Len(text_batch) }
    /\ ing_pc' = IF Len(embeddings) + Len(text_batch) >= Len(batch)
                 THEN "upsert" ELSE "embed"
    /\ UNCHANGED <<chunk_count, resume_from, processed, batch_start, qdrant,
                   upserted, reported, ingest_runs,
                   chunkVars, procVars, splitVars, parseVars>>

\* lines 178-182: get_embeddings raises; the texts were sent
EmbedFails ==
    /\ ing_pc = "embed"
    /\ embedded' = embedded \cup { text_batch[k] : k \in 1..Len(text_batch) }
    /\ reported' = Some(processed)
    /\ ing_pc' = "stopped"
    /\ UNCHANGED <<chunk_count, resume_from, processed, batch_start, embeddings,
                   qdrant, upserted, ingest_runs,
                   chunkVars, procVars, splitVars, parseVars>>

\* lines 212-223 and the head of the next iteration: the upsert returns
UpsertOk ==
    /\ ing_pc = "upsert"
    /\ qdrant' = Upserted(qdrant, points)
    /\ upserted' = upserted \cup { batch[k] : k \in 1..Len(batch) }
    /\ processed' = processed + Len(batch)
    /\ batch_start' = batch_start + BATCH_SIZE
    /\ embeddings' = <<>>
    /\ ing_pc' = IF batch_start + BATCH_SIZE >= Len(RemainingChunks)
                 THEN "complete" ELSE "embed"
    /\ UNCHANGED <<chunk_count, resume_from, embedded, reported, ingest_runs,
                   chunkVars, procVars, splitVars, parseVars>>

\* lines 217-221: the upsert raises; whether the server had stored the points
\* before the error (a timeout, a lost answer) is not known to the caller
UpsertFails ==
    /\ ing_pc = "upsert"
    /\ \E stored \in BOOLEAN :
          qdrant' = IF stored THEN Upserted(qdrant, points) ELSE qdrant
    /\ reported' = Some(processed)
    /\ ing_pc' = "stopped"
    /\ UNCHANGED <<chunk_count, resume_from, processed, batch_start, embeddings,
                   embedded, upserted, ingest_runs,
                   chunkVars, procVars, splitVars, parseVars>>

\* main, lines 250-251 and 282-288: after a stop the program is run again
\* with --resume-from set to the number the stopped run printed
Rerun ==
    /\ ing_pc = "stopped"
    /\ Len(ingest_runs) < MaxRuns
    /\ resume_from' = Get(reported)
    /\ ingest_runs' = Append(ingest_runs, Get(reported))
    /\ reported' = None
    /\ embedded' = {}
    /\ upserted' = {}
    /\ ing_pc' = "load"
    /\ UNCHANGED <<chunk_count, processed, batch_start, embeddings, qdrant,
                   chunkVars, procVars, splitVars, parseVars>>

IngestNext == IngestStart \/ EmbedOk \/ EmbedFails \/ UpsertOk \/ UpsertFails \/ Rerun

\* the sizes of the chunk file: none, one, around one embedding call, around
\* one batch, a batch and a half, and the largest
ChunkCounts ==
    { 0, 1, EMBEDDING_BATCH_SIZE, EMBEDDING_BATCH_SIZE + 1, BATCH_SIZE - 1,
      BATCH_SIZE, BATCH_SIZE + 1, BATCH_SIZE + EMBEDDING_BATCH_SIZE, MaxChunks }

\* the resume_from of the first run on a file of n chunks
FirstResume(n) ==
    { 0, 1, EMBEDDING_BATCH_SIZE, BATCH_SIZE - 1, BATCH_SIZE, BATCH_SIZE + 1,
      n, n + 1 }

IngestInit ==
    /\ chunk_count \in ChunkCounts
    /\ resume_from \in FirstResume(chunk_count)
    /\ processed = 0
    /\ ing_pc = "load"
    /\ batch_start = 0
    /\ embeddings = <<>>
    /\ qdrant = {}
    /\ embedded = {}
    /\ upserted = {}
    /\ reported = None
    /\ ingest_runs = <<resume_from>>

\* ingest_chunks is not running (the other specifications)
IngestIdle ==
    /\ chunk_count = 0
    /\ resume_from = 0
    /\ processed = 0
    /\ ing_pc = "complete"
    /\ batch_start = 0
    /\ embeddings = <<>>
    /\ qdrant = {}
    /\ embedded = {}
    /\ upserted = {}
    /\ reported = None
    /\ ingest_runs = <<>>

--------------------------------------------------------------------------
(* Inputs of the parser *)

\* most lines of one file (ParseFileSpec)
MaxLines == 4
\* most lines of a whole directory (ParseDirSpec)
MaxDirLines == 4
\* most lines of a whole directory (ParseErrSpec)
MaxErrLines == 5

\* one line of every kind the loop tells apart, message-shaped noise and a
\* message pattern with nothing but blanks after the nick included
FileLinePool ==
    { L_START, L_CLOSE, L_IDENT, L_OTHER, L_SELF, L_OTHER_CAROL,
      L_NOISE, L_NOISE_MSG, L_UNKNOWN, L_NO_TEXT, L_CP1252 }

FileNamePool == { "#chan.EFnet.log", "dm.EFnet.log" }

DirLinePool == { L_START, L_CLOSE, L_IDENT, L_OTHER, L_SELF, L_NOISE }

DirNamePool == { "#chan.EFnet.log", "carol.log" }

\* most lines of one file (ParseMarkSpec)
MaxMarkLines == 4

\* the markers: start and close with a timestamp that parses and one that
\* does not, every kind of ident, and a message (ParseMarkSpec)
MarkLinePool ==
    { L_START, L_START_BAD, L_CLOSE, L_CLOSE_BAD, L_IDENT, L_IDENT_HASH,
      L_IDENT_AT, L_IDENT_STATUS, L_IDENT_WINDOW, L_OTHER }

\* a directory of three files, each readable or not, of start markers and
\* messages (ParseErrSpec)
ErrLinePool == { L_START, L_OTHER }

ErrNamePool == { "#chan.EFnet.log", "dm.EFnet.log", "carol.log" }

Opened == { log_files[k].path : k \in 1..Len(log_files) }

\* number of lines consumed so far, over all files
RECURSIVE LinesRead(_)
LinesRead(files) ==
    IF files = <<>> THEN 0 ELSE Len(files[1].content) + LinesRead(Tail(files))

--------------------------------------------------------------------------
(* Specifications *)

\* chunk_session on one drawn session
ChunkSpecInit == ChunkInit /\ ProcOneSession /\ SplitIdle /\ ParseIdle /\ IngestIdle

\* process_sessions on an input file of up to MaxRecords lines, for
\* min_messages 0 to 3
ProcSpecInit == ProcInit /\ ChunkIdle /\ SplitIdle /\ ParseIdle /\ IngestIdle

ProcSpec == ProcSpecInit /\ [][ProcNext]_vars

\* ingest_chunks on a file of chunks, rerun after every stop
IngestSpecInit == IngestInit /\ ChunkIdle /\ ProcIdle /\ SplitIdle /\ ParseIdle

IngestSpec == IngestSpecInit /\ [][IngestNext]_vars

ChunkSpec == ChunkSpecInit /\ [][ChunkNext]_vars

\* should_split on one drawn pair of messages
SplitSpecInit == SplitInit /\ ChunkIdle /\ ProcIdle /\ ParseIdle /\ IngestIdle

SplitSpec == SplitSpecInit /\ [][SplitNext]_vars

\* parse_directory (default min_messages) over a directory of one file, of
\* any lines of FileLinePool
ParseFileInit ==
    min_messages = 2 /\ ParseInit /\ ChunkIdle /\ ProcIdle /\ SplitIdle /\ IngestIdle

ParseFileNext ==
    \/ log_files = <<>> /\ \E f \in FileNamePool : OpenFile(f)
    \/ /\ ppc = "file"
       /\ Len(content) < MaxLines
       /\ \E line \in FileLinePool : ReadLine(line)
    \/ EndOfFile
    \/ DirFinish

ParseFileSpec == ParseFileInit /\ [][ParseFileNext]_vars

\* parse_directory over a directory of any files, for min_messages 0 to 2
ParseDirInit ==
    min_messages \in 0..2 /\ ParseInit /\ ChunkIdle /\ ProcIdle /\ SplitIdle /\ IngestIdle

ParseDirNext ==
    \/ \E f \in DirNamePool : OpenFile(f)
    \/ /\ LinesRead(log_files) < MaxDirLines
       /\ \E line \in DirLinePool : ReadLine(line)
    \/ EndOfFile
    \/ DirFinish

ParseDirSpec == ParseDirInit /\ [][ParseDirNext]_vars

\* parse_directory over the three files of ErrNamePool in any order, any of
\* them unreadable, for min_messages 0 to 2
ParseErrInit ==
    min_messages \in 0..2 /\ ParseInit /\ ChunkIdle /\ ProcIdle /\ SplitIdle /\ IngestIdle

ParseErrNext ==
    \/ \E f \in ErrNamePool : OpenFile(f)
    \/ \E f \in ErrNamePool : OpenFails(f)
    \/ /\ LinesRead(log_files) < MaxErrLines
       /\ \E line \in ErrLinePool : ReadLine(line)
    \/ EndOfFile
    \/ Opened = ErrNamePool /\ DirFinish

ParseErrSpec == ParseErrInit /\ [][ParseErrNext]_vars

\* parse_directory (min_messages 1) over a directory of one file, a channel
\* log or a one-to-one log, of any lines of MarkLinePool
ParseMarkInit ==
    min_messages = 1 /\ ParseInit /\ ChunkIdle /\ ProcIdle /\ SplitIdle /\ IngestIdle

ParseMarkNext ==
    \/ log_files = <<>> /\ \E f \in FileNamePool : OpenFile(f)
    \/ /\ ppc = "file"
       /\ Len(content) < MaxMarkLines
       /\ \E line \in MarkLinePool : ReadLine(line)
    \/ EndOfFile
    \/ DirFinish

ParseMarkSpec == ParseMarkInit /\ [][ParseMarkNext]_vars

\* most lines of one file (ParseIdentSpec)
MaxIdentLines == 4

\* a start marker, ident markers that name a nick, an '@' token and a '#'
\* token, and a message
IdentLinePool == { L_START, L_IDENT, L_IDENT_AT, L_IDENT_HASH, L_OTHER }

\* channel logs ('#' and '@', with a network, with a numeric name) and
\* one-to-one logs (with and without a network)
IdentNamePool ==
    { "#chan.EFnet.log", "@ops.EFnet.log", "#1009689464.log",
      "dm.EFnet.log", "carol.log" }

\* parse_directory (min_messages 1) over a directory of one file of
\* IdentNamePool, of any lines of IdentLinePool
ParseIdentInit ==
    min_messages = 1 /\ ParseInit /\ ChunkIdle /\ ProcIdle /\ SplitIdle /\ IngestIdle

ParseIdentNext ==
    \/ log_files = <<>> /\ \E f \in IdentNamePool : OpenFile(f)
    \/ /\ ppc = "file"
       /\ Len(content) < MaxIdentLines
       /\ \E line \in IdentLinePool : ReadLine(line)
    \/ EndOfFile
    \/ DirFinish

ParseIdentSpec == ParseIdentInit /\ [][ParseIdentNext]_vars

--------------------------------------------------------------------------
(* Properties of chunk_session *)

ChunkDone == pc = "done"

\* number of messages in the chunks yielded before chunk j
ChunkOffset(j) == SumSeq([k \in 1..(j - 1) |-> chunks[k].message_count])

TotalChunked == ChunkOffset(Len(chunks) + 1)

\* the messages of the session that chunk j stands for
ChunkSegment(j) ==
    SubSeq(messages, ChunkOffset(j) + 1, ChunkOffset(j) + chunks[j].message_count)

\* the reading of an "HH:MM" time the properties below use
Parseable(t) == t # EmptyStr /\ t[1] \in 0..23 /\ t[2] \in 0..59

MinuteOfDay(t) == t[1] * 60 + t[2]

\* minutes from p to c, c taken on the next day when it is earlier than p
RolloverGap(p, c) == (MinuteOfDay(c) - MinuteOfDay(p)) % 1440

HasSessionDate(s) == s.start_time # None /\ Get(s.start_time).iso

\* both times parse, a session date is known and c is more than 30 minutes
\* after p
GapExceeds(s, p, c) ==
    /\ HasSessionDate(s)
    /\ Parseable(p.time) /\ Parseable(c.time)
    /\ RolloverGap(p.time, c.time) > 30

\* C1: the chunks yielded so far are numbered 0, 1, 2, ... in emission order,
\* each holds at least one message, chunk j holds exactly the next
\* message_count messages of the session in order (its text is their
\* formatted lines, its start/end times are those of its first/last message),
\* and when the generator is exhausted the chunks cover every message.
C1_ChunksReproduceSession ==
    /\ \A j \in 1..Len(chunks) :
          chunks[j].chunk_index = j - 1 /\ chunks[j].message_count >= 1
    /\ TotalChunked <= Len(messages)
    /\ \A j \in 1..Len(chunks) :
          /\ chunks[j].text = format_chunk_text(ChunkSegment(j))
          /\ chunks[j].start_time = Some(ChunkSegment(j)[1].time)
          /\ chunks[j].end_time = Some(Last(ChunkSegment(j)).time)
    /\ ChunkDone => TotalChunked = Len(messages)

C1_Witness ==
    /\ ChunkDone
    /\ Len(messages) = MaxRun + 1
    /\ Len(chunks) >= 3
    /\ \E j \in 1..Len(chunks) : chunks[j].message_count = 1

\* C2: no yielded chunk has message_count greater than 20.
C2_CountWithinLimit ==
    \A j \in 1..Len(chunks) : chunks[j].message_count <= MAX_MESSAGES_PER_CHUNK

C2_Witness ==
    /\ ChunkDone
    /\ \E j \in 1..Len(chunks) : chunks[j].message_count = MAX_MESSAGES_PER_CHUNK
    /\ Len(messages) > MAX_MESSAGES_PER_CHUNK

\* C3: no yielded chunk has a text longer than 8000 characters, also when a
\* single formatted line is longer than 8000 characters.
C3_TextWithinBudget ==
    \A j \in 1..Len(chunks) : CharLen(chunks[j].text) <= MAX_CHARS_PER_CHUNK

\* C4: with a session date and parseable times, no two consecutive messages
\* of one chunk are more than 30 minutes apart (day rollover applied); and two
\* consecutive messages exactly 30 minutes apart are split into two chunks
\* only when the count limit or the character budget asks for it.
C4_NoLongGapInsideChunk ==
    /\ \A j \in 1..Len(chunks) : \A k \in 1..(chunks[j].message_count - 1) :
          ~GapExceeds(session, ChunkSegment(j)[k], ChunkSegment(j)[k + 1])
    /\ \A j \in 1..(Len(chunks) - 1) :
          LET prev == Last(ChunkSegment(j))
              next == ChunkSegment(j + 1)[1]
          IN  ( /\ HasSessionDate(session)
                /\ Parseable(prev.time) /\ Parseable(next.time)
                /\ RolloverGap(prev.time, next.time) = 30 )
              => \/ chunks[j].message_count >= 20
                 \/ CharLen(chunks[j].text) + 1 + MsgChars(next) > 8000

\* a dated session in which one chunk boundary is a gap of more than 30
\* minutes and one chunk holds two messages exactly 30 minutes apart
C4_Witness ==
    /\ ChunkDone
    /\ HasSessionDate(session)
    /\ \E j \in 1..(Len(chunks) - 1) :
          /\ GapExceeds(session, Last(ChunkSegment(j)), ChunkSegment(j + 1)[1])
          /\ chunks[j].message_count < 20
          /\ CharLen(chunks[j].text) + 1 + MsgChars(ChunkSegment(j + 1)[1]) <= 8000
    /\ \E j \in 1..Len(chunks) : \E k \in 1..(chunks[j].message_count - 1) :
          /\ Parseable(ChunkSegment(j)[k].time)
          /\ Parseable(ChunkSegment(j)[k + 1].time)
          /\ RolloverGap(ChunkSegment(j)[k].time, ChunkSegment(j)[k + 1].time) = 30

\* C6: a session with no messages (or no messages field) yields no chunk; a
\* session with exactly one message yields exactly one chunk, with
\* message_count 1 and chunk_index 0, whatever its length or time.
C6_EmptyAndSingleton ==
    /\ Len(messages) = 0 => chunks = <<>>
    /\ (ChunkDone /\ Len(messages) = 1) =>
          /\ Len(chunks) = 1
          /\ chunks[1].message_count = 1
          /\ chunks[1].chunk_index = 0

\* the single message is longer than the whole character budget
C6_Witness ==
    /\ ChunkDone
    /\ Len(messages) = 1
    /\ MsgChars(messages[1]) > MAX_CHARS_PER_CHUNK
    /\ Len(chunks) = 1

\* C7: n >= 1 messages, no consecutive pair more than 30 minutes apart, the
\* whole formatted text shorter than the character budget: exactly
\* ceil(n/20) chunks, all of 20 messages but the last, which holds the rest.
C7_CountOnlyChunking ==
    LET n == Len(messages)
        k == (n + 19) \div 20
    IN  ( /\ ChunkDone
          /\ n >= 1
          /\ \A m \in 1..(n - 1) : ~GapExceeds(session, messages[m], messages[m + 1])
          /\ CharLen(format_chunk_text(messages)) < 8000 )
        => /\ Len(chunks) = k
           /\ \A j \in 1..(k - 1) : chunks[j].message_count = 20
           /\ chunks[k].message_count = n - 20 * (k - 1)

\* 25 messages one minute apart with 10-character texts, session date known
C7_Witness ==
    /\ ChunkDone
    /\ HasSessionDate(session)
    /\ messages = Run([step |-> 1, text |-> 10], 25)
    /\ Len(chunks) = 2
    /\ chunks[1].message_count = 20
    /\ chunks[2].message_count = 5

--------------------------------------------------------------------------
(* Properties of should_split *)

\* C5: with a session date and two parseable times p (previous) and c
\* (candidate), should_split returns TRUE exactly when ((c - p) mod 1440) > 30,
\* minutes of day: 23:55 then 00:10 is 15 minutes and is not split, 10:00 then
\* 09:45 is split.
C5_SplitIffRolloverGap ==
    ( /\ split_result # None
      /\ split_args[3] # None
      /\ Parseable(split_args[1].time)
      /\ Parseable(split_args[2].time) )
    => Get(split_result) = (RolloverGap(split_args[1].time, split_args[2].time) > 30)

\* the call on 23:55 followed by 00:10 has returned FALSE
C5_Witness ==
    /\ split_result = Some(FALSE)
    /\ split_args[3] # None
    /\ split_args[1].time = <<23, 55>>
    /\ split_args[2].time = <<0, 10>>

--------------------------------------------------------------------------
(* Properties of parse_log_file and parse_directory *)

IsStartLine(line) == SESSION_START_PATTERN(line) # None

\* the Message a line stands for when it is a message line with a non-empty
\* text, else None: a bracketed nick is another user's message, a
\* parenthesized nick is one's own; a line a noise pattern matches is noise
MessageOfLine(line) ==
    LET cleaned == strip_mirc_codes(line)
        other == OTHER_USER_MSG_PATTERN(cleaned)
        your == YOUR_MSG_PATTERN(cleaned)
    IN  IF NoisePatternMatches(cleaned) THEN None
        ELSE IF other # None /\ Get(other)[3] # ""
        THEN Some([time |-> Get(other)[1], nick |-> Get(other)[2],
                   text |-> Get(other)[3], is_self |-> FALSE])
        ELSE IF other = None /\ your # None /\ Get(your)[3] # ""
        THEN Some([time |-> Get(your)[1], nick |-> Get(your)[2],
                   text |-> Get(your)[3], is_self |-> TRUE])
        ELSE None

\* position of the first Session Start marker after position p, or Len + 1
NextStart(lines, p) ==
    IF \E q \in (p + 1)..Len(lines) : IsStartLine(lines[q])
    THEN CHOOSE q \in (p + 1)..Len(lines) :
            /\ IsStartLine(lines[q])
            /\ \A r \in (p + 1)..(q - 1) : ~IsStartLine(lines[r])
    ELSE Len(lines) + 1

\* the messages of the lines between the start marker at p and the next one
MessagesAfterStart(lines, p) ==
    LET between == SubSeq(lines, p + 1, NextStart(lines, p) - 1)
        msgLines == SelectSeq(between, LAMBDA l : MessageOfLine(l) # None)
    IN  [k \in 1..Len(msgLines) |-> Get(MessageOfLine(msgLines[k]))]

\* the message lists of the sessions a file must have yielded so far: one per
\* start marker whose stretch has ended (by a later start marker or the end
\* of input) and holds a message, in file order
ExpectedMessageLists(file) ==
    LET lines == file.content
        ended(p) == NextStart(lines, p) <= Len(lines) \/ file.eof
        starts == SelectSeq([p \in 1..Len(lines) |-> p],
                            LAMBDA p : /\ IsStartLine(lines[p])
                                       /\ ended(p)
                                       /\ MessagesAfterStart(lines, p) # <<>>)
    IN  [k \in 1..Len(starts) |-> MessagesAfterStart(lines, starts[k])]

YieldedFrom(path) == SelectSeq(yielded, LAMBDA s : s.source_file = path)

\* C8: the sessions a file has yielded hold, in order, exactly the message
\* lines (non-empty text, not noise) between a Session Start marker and the
\* next one or the end of input, is_self FALSE for [nick] and TRUE for (nick);
\* no line is in two sessions.
C8_SessionsHoldTheirMessageLines ==
    \A f \in 1..Len(log_files) :
        LET ys == YieldedFrom(log_files[f].path)
        IN  [k \in 1..Len(ys) |-> ys[k].messages] = ExpectedMessageLists(log_files[f])

\* Start, [alice] hello, (bob) hi there, Close: one session, two messages,
\* is_self FALSE then TRUE, participants alice, bob
C8_Witness ==
    /\ ppc = "end"
    /\ Len(log_files) = 1
    /\ log_files[1].content = <<L_START, L_OTHER, L_SELF, L_CLOSE>>
    /\ Len(yielded) = 1
    /\ Len(yielded[1].messages) = 2
    /\ yielded[1].messages[1].is_self = FALSE
    /\ yielded[1].messages[2].is_self = TRUE
    /\ yielded[1].participants = <<"alice", "bob">>

\* C9: every session yielded by parse_log_file and every record written by
\* parse_directory holds at least one message, for every min_messages, 0
\* included.
C9_NoEmptySessionEmitted ==
    /\ \A k \in 1..Len(yielded) : Len(yielded[k].messages) >= 1
    /\ \A k \in 1..Len(out) :
          out[k].message_count >= 1 /\ Len(out[k].messages) >= 1

\* min_messages is 0, a file held two start markers in a row (a session with
\* no message was dropped) and a session was written
C9_Witness ==
    /\ ppc = "end"
    /\ min_messages = 0
    /\ Len(out) >= 1
    /\ \E f \in 1..Len(log_files) : \E p \in 1..(Len(log_files[f].content) - 1) :
          /\ IsStartLine(log_files[f].content[p])
          /\ IsStartLine(log_files[f].content[p + 1])

\* a line that is no start, close or ident marker and is noise, matches no
\* message pattern, or has an empty text
InertLine(line) ==
    /\ SESSION_START_PATTERN(line) = None
    /\ SESSION_CLOSE_PATTERN(line) = None
    /\ SESSION_IDENT_PATTERN(line) = None
    /\ MessageOfLine(line) = None

\* C10: while a session is open, reading a noise line, an unrecognized line or
\* a message line with an empty text changes nothing of the parser: the open
\* session (its messages too), the participants, the session counter and what
\* was yielded and written stay as they are; a noise line that also matches a
\* message pattern is such a line.
C10_InertLinesChangeNothing ==
    [][ ( /\ ppc = "file" /\ ppc' = "file"
          /\ current_session # None
          /\ Len(content') = Len(content) + 1
          /\ InertLine(Last(content')) )
        => UNCHANGED <<current_session, participants, session_count,
                       yielded, out, stats>> ]_vars

\* a message-shaped noise line was read after a message: the session is
\* still open and still holds that one message
C10_Witness ==
    /\ ppc = "file"
    /\ content = <<L_START, L_OTHER, L_NOISE_MSG, L_NO_TEXT>>
    /\ current_session # None
    /\ Len(Get(current_session).messages) = 1
    /\ participants = {"alice"}
    /\ session_count = 1

--------------------------------------------------------------------------
(* Properties of the encodings, the errors and the counters of the parser *)

\* every line read from the file is valid text of the encoding
DecodesCleanly(file, encoding) ==
    \A k \in 1..Len(file.raw) : ValidIn(file.raw[k], encoding)

\* position in `encodings` of the encoding the file was read with
EncodingIndex(file) ==
    CHOOSE k \in 1..Len(encodings) : encodings[k] = Get(file.encoding)

\* C11: a file that was read to its end was read with the first encoding of
\* utf-8, cp1252, latin-1, iso-8859-1 under which it decodes cleanly: every
\* line is valid in the encoding used, and under every earlier encoding some
\* line is not; a file with no such encoding yields no session.
C11_ReadsWithFirstCleanEncoding ==
    \A f \in 1..Len(log_files) :
        LET file == log_files[f]
        IN  (file.readable /\ file.eof) =>
               IF file.encoding = None
               THEN YieldedFrom(file.path) = <<>>
               ELSE /\ DecodesCleanly(file, Get(file.encoding))
                    /\ \A k \in 1..(EncodingIndex(file) - 1) :
                          ~DecodesCleanly(file, encodings[k])

\* the records written for the sessions of one file
WrittenFrom(path) == SelectSeq(out, LAMBDA r : r.source_file = path)

Qualifies(msgs) == Len(msgs) >= min_messages

Unreadable == { f \in 1..Len(log_files) : ~log_files[f].readable }

\* C12: a file that cannot be read does not end the batch: parse_directory
\* ends only when every file of the directory has been taken, and at every
\* moment the output holds, for every file read to its end (before or after
\* a failed one), exactly the sessions of that file with at least
\* min_messages messages.
C12_FailedFileDoesNotAbort ==
    /\ ppc = "end" => Opened = ErrNamePool
    /\ \A f \in 1..Len(log_files) :
          LET file == log_files[f]
              written == WrittenFrom(file.path)
          IN  /\ ~file.readable => written = <<>>
              /\ (file.readable /\ file.eof) =>
                    [k \in 1..Len(written) |-> written[k].messages]
                       = SelectSeq(ExpectedMessageLists(file), Qualifies)

\* the second of three files could not be read; a session of the first and
\* a session of the third are in the output
C12_Witness ==
    /\ ppc = "end"
    /\ Len(log_files) = 3
    /\ Unreadable = {2}
    /\ WrittenFrom(log_files[1].path) # <<>>
    /\ WrittenFrom(log_files[3].path) # <<>>

RECURSIVE SumMessageCounts(_)
SumMessageCounts(records) ==
    IF records = <<>> THEN 0
    ELSE records[1].message_count + SumMessageCounts(Tail(records))

\* the yielded sessions with at least min_messages messages
QualifyingYielded == SelectSeq(yielded, LAMBDA y : Qualifies(y.messages))

\* C13: the output is, in order, the to_dict record of every yielded session
\* with at least min_messages messages and of no other; sessions +
\* skipped_short counts the yielded sessions, sessions the records written,
\* messages the messages of the written records.
C13_FilterAndCounters ==
    /\ out = [k \in 1..Len(QualifyingYielded) |-> to_dict(QualifyingYielded[k])]
    /\ stats.sessions + stats.skipped_short = Len(yielded)
    /\ stats.sessions = Len(out)
    /\ stats.messages = SumMessageCounts(out)

\* min_messages is 2: a session of two messages was written, a session of
\* one message was skipped, and a session of exactly min_messages is kept
C13_Witness ==
    /\ ppc = "end"
    /\ min_messages = 2
    /\ stats.sessions = 1
    /\ stats.skipped_short = 1
    /\ stats.messages = 2

\* C14: when parse_directory has finished, stats['errors'] is the number of
\* files on which parsing failed.
C14_ErrorsCountFailedFiles ==
    ppc = "end" => stats.errors = Cardinality(Unreadable)

\* the number a sequence of decimal digits writes
RECURSIVE DigitsValue(_)
DigitsValue(ds) ==
    IF ds = <<>> THEN 0
    ELSE 10 * DigitsValue(SubSeq(ds, 1, Len(ds) - 1)) + ds[Len(ds)]

\* the numeric counter at the end of a session id
CounterOf(id) == DigitsValue(id[3])

StartMarkers(lines) == { q \in 1..Len(lines) : IsStartLine(lines[q]) }

\* C18: within one file the session ids of the yielded sessions are pairwise
\* distinct and their counters strictly increase in emission order; the
\* counter of the file being parsed is the number of Session Start markers
\* read, those of discarded sessions included, and the open session carries
\* that number.
C18_SessionIdsDistinctIncreasing ==
    /\ \A f \in 1..Len(log_files) :
          LET ys == YieldedFrom(log_files[f].path)
          IN  \A a, b \in 1..Len(ys) :
                 a < b => /\ ys[a].session_id # ys[b].session_id
                          /\ CounterOf(ys[a].session_id) < CounterOf(ys[b].session_id)
    /\ ppc = "file" =>
          /\ session_count = Cardinality(StartMarkers(content))
          /\ current_session # None =>
                CounterOf(Get(current_session).session_id) = session_count

\* Start, message, Start, Start, message: the sessions 0001 and 0003 were
\* yielded, 0002 was discarded
C18_Witness ==
    /\ \E f \in 1..Len(log_files) :
          /\ log_files[f].content = <<L_START, L_OTHER, L_START, L_START, L_OTHER>>
          /\ log_files[f].eof
          /\ LET ys == YieldedFrom(log_files[f].path)
             IN  /\ Len(ys) = 2
                 /\ ys[1].session_id[3] = <<0, 0, 0, 1>>
                 /\ ys[2].session_id[3] = <<0, 0, 0, 3>>

\* the session the parser yields when it leaves the open session cs behind
Frozen(cs, nicks) == [Get(cs) EXCEPT !.participants = Sorted(nicks)]

YieldsOpenSessionIfAny ==
    yielded' = IF current_session # None /\ Get(current_session).messages # <<>>
               THEN Append(yielded, Frozen(current_session, participants))
               ELSE yielded

\* C20: reading a Session Start marker yields the open session exactly when
\* it has a message, and leaves a fresh open session: no message, no
\* participant (in the session and in the accumulator), no end time, an id
\* that no session yielded from the file and not the session left behind
\* carries; the end of the input yields the open session on the same
\* condition.
C20_StartMarkerTransition ==
    [][ /\ ( /\ ppc = "file" /\ ppc' = "file"
             /\ Len(content') = Len(content) + 1
             /\ IsStartLine(Last(content')) )
           => /\ YieldsOpenSessionIfAny
              /\ current_session' # None
              /\ Get(current_session').messages = <<>>
              /\ Get(current_session').participants = <<>>
              /\ Get(current_session').end_time = None
              /\ participants' = {}
              /\ current_session # None =>
                    Get(current_session').session_id # Get(current_session).session_id
              /\ \A k \in 1..Len(yielded') :
                    yielded'[k].source_file = filepath =>
                       yielded'[k].session_id # Get(current_session').session_id
        /\ (ppc = "file" /\ ppc' = "dir") => YieldsOpenSessionIfAny ]_vars

\* Start, message, Start, Start: the first session was yielded on the second
\* marker, the second was discarded on the third, the third is open and empty
C20_Witness ==
    /\ ppc = "file"
    /\ content = <<L_START, L_OTHER, L_START, L_START>>
    /\ Len(yielded) = 1
    /\ yielded[1].participants = <<"alice">>
    /\ session_count = 3
    /\ Get(current_session).messages = <<>>

--------------------------------------------------------------------------
(* Properties of process_sessions *)

WrittenSessionIds == { outfile[k].session_id : k \in 1..Len(outfile) }

\* the chunk_index values written for one session
WrittenIndexes(id) ==
    { outfile[k].chunk_index : k \in { n \in 1..Len(outfile) : outfile[n].session_id = id } }

\* C15: for every session the chunk_index values of the records written to
\* the chunk output are 0, 1, ..., n - 1 with none missing, whatever
\* min_messages is.
C15_WrittenIndexesContiguous ==
    \A id \in WrittenSessionIds :
        \A n \in WrittenIndexes(id) : \A m \in 0..n : m \in WrittenIndexes(id)

\* a line that breaks the contract of the input: no JSON, or a session with
\* messages and no session_id/source_file
Malformed(line) ==
    ~line.json \/ (SessionMessages(line.record) # <<>> /\ ~line.record.has_ids)

\* C16: on an input whose every line is a well-formed session record
\* process_sessions does not raise, the empty input and an input of which
\* no chunk passes the min_messages filter included.
C16_WellFormedInputNeverRaises ==
    (\A k \in 1..Len(infile) : ~Malformed(infile[k])) => proc_pc # "raised"

\* position of the first malformed line, 0 when there is none
FirstMalformed ==
    IF \E k \in 1..Len(infile) : Malformed(infile[k])
    THEN CHOOSE k \in 1..Len(infile) :
            Malformed(infile[k]) /\ \A r \in 1..(k - 1) : ~Malformed(infile[r])
    ELSE 0

\* the chunks the current generator has yielded that pass the filter
KeptChunks == SelectSeq(chunks, KeepChunk)

C17_State ==
    /\ Len(outfile) >= Len(KeptChunks)
    /\ SubSeq(outfile, Len(outfile) - Len(KeptChunks) + 1, Len(outfile))
          = [k \in 1..Len(KeptChunks) |-> Chunk_to_dict(KeptChunks[k])]
    /\ LET n == FirstMalformed
       IN  n # 0 =>
             /\ proc_pc # "returned"
             /\ total_sessions <= n
             /\ proc_pc = "raised" =>
                   IF infile[n].json
                   THEN exception = Some("KeyError") /\ total_sessions = n
                   ELSE exception = Some("JSONDecodeError") /\ total_sessions = n - 1
             /\ \A k \in 1..Len(outfile) : \E r \in 1..(n - 1) :
                   infile[r].record.session_id = outfile[k].session_id

\* C17: when line n is the first malformed line of the input,
\* process_sessions never returns: it raises at line n (JSONDecodeError for
\* a line that is no JSON, KeyError for a session with messages and no
\* session_id/source_file), every record ever written belongs to a session
\* of the lines before n, nothing is written after the error, and every
\* chunk of an earlier record that passes the filter was written when it was
\* yielded and stays in the output.
C17_MalformedRecordAborts ==
    /\ []C17_State
    /\ [][ /\ Len(outfile') >= Len(outfile)
           /\ SubSeq(outfile', 1, Len(outfile)) = outfile
           /\ proc_pc = "raised" => outfile' = outfile ]_vars

\* the second of three lines has messages and no session_id: KeyError, the
\* chunk of the first line is in the output, the third line is a session
\* with messages that was never read
C17_Witness ==
    /\ proc_pc = "raised"
    /\ exception = Some("KeyError")
    /\ total_sessions = 2
    /\ Len(infile) = 3
    /\ ~Malformed(infile[3]) /\ SessionMessages(infile[3].record) # <<>>
    /\ outfile # <<>>

--------------------------------------------------------------------------
(* Properties of ingest_chunks *)

\* the point of the chunk at offset j: id j + 1, the embedding of its own
\* text, its own payload
PointOf(j) == [id |-> j + 1, vector |-> j, payload |-> j]

\* C19: a run with resume_from = p sends no chunk at an offset below p to
\* the embedding API or to Qdrant; every point ever stored is the point of
\* one chunk under the id offset + 1, resumed or not; a run that stops
\* reports an offset p >= resume_from such that every chunk from resume_from
\* to p - 1 was upserted by it in a completed batch; and when the first run
\* started at 0 and every later run at the offset the one before reported,
\* all chunks below the reported offset are stored, and a run that completes
\* leaves exactly one point per chunk of the file, under its id offset + 1.
C19_ResumeKeepsIds ==
    /\ \A j \in embedded \cup upserted : j >= resume_from
    /\ \A pt \in qdrant : pt = PointOf(pt.payload) /\ pt.payload \in 0..(chunk_count - 1)
    /\ ing_pc = "stopped" =>
          /\ Get(reported) >= resume_from
          /\ Get(reported) <= chunk_count
          /\ \A j \in resume_from..(Get(reported) - 1) :
                j \in upserted /\ PointOf(j) \in qdrant
    /\ (ingest_runs # <<>> /\ ingest_runs[1] = 0) =>
          /\ ing_pc = "stopped" =>
                \A j \in 0..(Get(reported) - 1) : PointOf(j) \in qdrant
          /\ ing_pc = "complete" =>
                qdrant = { PointOf(j) : j \in 0..(chunk_count - 1) }

\* the largest file: the first run stopped after one batch, the second,
\* resumed at 100, after the next, the third, resumed at 200, completed
C19_Witness ==
    /\ ing_pc = "complete"
    /\ chunk_count = MaxChunks
    /\ ingest_runs = <<0, BATCH_SIZE, 2 * BATCH_SIZE>>
    /\ Cardinality(qdrant) = MaxChunks
    /\ upserted = (2 * BATCH_SIZE)..(MaxChunks - 1)

--------------------------------------------------------------------------
(* Properties of the markers of parse_log_file *)

\* a step of the line loop: one more line of the open file was read
ReadsLine == ppc = "file" /\ ppc' = "file" /\ Len(content') = Len(content) + 1

\* the timestamp a Session Close line carries, as a datetime, or None when it
\* has none of the accepted layouts
CloseStamp(line) ==
    CASE line = L_CLOSE ->
            Some([year |-> 2003, md |-> <<12, 9>>, hms |-> <<19, 6, 0>>])
      [] OTHER -> None

IsCloseLine(line) == line \in {L_CLOSE, L_CLOSE_BAD}

\* C21: reading a Session Close marker while a session is open yields
\* nothing and keeps the session open: the session is the same but for its
\* end_time, which becomes the parse result of this marker (whatever an
\* earlier marker had set); a message line read while a session is open is
\* appended to that session, whether or not a close marker came before it.
C21_CloseOnlySetsEndTime ==
    [][ /\ (ReadsLine /\ current_session # None /\ IsCloseLine(Last(content')))
           => /\ yielded' = yielded
              /\ out' = out
              /\ current_session' =
                    Some([Get(current_session) EXCEPT
                            !.end_time = CloseStamp(Last(content'))])
              /\ UNCHANGED <<session_count, participants>>
        /\ ( /\ ReadsLine /\ current_session # None
             /\ ~IsStartLine(Last(content')) /\ ~IsCloseLine(Last(content'))
             /\ SESSION_IDENT_PATTERN(Last(content')) = None
             /\ MessageOfLine(Last(content')) # None )
           => /\ yielded' = yielded
              /\ current_session' =
                    Some([Get(current_session) EXCEPT
                            !.messages = Append(@, Get(MessageOfLine(Last(content'))))])
      ]_vars

\* Start, a close marker that does not parse, a message, a close marker that
\* parses: one open session with the message and the end time of the last
\* marker, nothing yielded
C21_Witness ==
    /\ ppc = "file"
    /\ content = <<L_START, L_CLOSE_BAD, L_OTHER, L_CLOSE>>
    /\ yielded = <<>>
    /\ current_session # None
    /\ Len(Get(current_session).messages) = 1
    /\ Get(current_session).end_time = CloseStamp(L_CLOSE)

RECURSIVE Flatten(_)
Flatten(seqs) == IF seqs = <<>> THEN <<>> ELSE seqs[1] \o Flatten(Tail(seqs))

\* the messages of the message lines among lines, in order
MessagesOfLines(lines) ==
    LET msgLines == SelectSeq(lines, LAMBDA l : MessageOfLine(l) # None)
    IN  [k \in 1..Len(msgLines) |-> Get(MessageOfLine(msgLines[k]))]

\* every message held by a session of file f: those of the sessions it has
\* yielded, then those of the session that is open
HeldMessages(f) ==
    LET ys == YieldedFrom(log_files[f].path)
        open == IF f = Len(log_files) /\ ppc = "file" /\ current_session # None
                THEN Get(current_session).messages ELSE <<>>
    IN  Flatten([k \in 1..Len(ys) |-> ys[k].messages]) \o open

\* C22: as long as no Session Start marker of the file has been read, no
\* session is open, the session counter is 0, no participant is recorded and
\* the file has yielded nothing, whatever lines were read; and the messages
\* the sessions of a file hold are, in order, a prefix of the messages of
\* the lines after its first start marker, so that no line before it is in
\* any session.
C22_LinesBeforeFirstStartIgnored ==
    \A f \in 1..Len(log_files) :
        LET lines == log_files[f].content
            first == NextStart(lines, 0)
            after == MessagesOfLines(SubSeq(lines, first + 1, Len(lines)))
            held == HeldMessages(f)
        IN  /\ first > Len(lines) =>
                  /\ YieldedFrom(log_files[f].path) = <<>>
                  /\ (f = Len(log_files) /\ ppc = "file") =>
                        /\ current_session = None
                        /\ session_count = 0
                        /\ participants = {}
            /\ Len(held) <= Len(after)
            /\ held = SubSeq(after, 1, Len(held))
            /\ (f = Len(log_files) /\ ppc = "file") => held = after

\* a message, a close marker, then Start and a message of bob: the one
\* session yielded holds the message of bob alone
C22_Witness ==
    /\ ppc = "end"
    /\ Len(log_files) = 1
    /\ log_files[1].content = <<L_OTHER, L_CLOSE, L_START, L_SELF>>
    /\ Len(yielded) = 1
    /\ Len(yielded[1].messages) = 1
    /\ yielded[1].messages[1].nick = "bob"
    /\ yielded[1].end_time = None

\* the sessions the parser holds: those yielded, and the one that is open
HeldSessions ==
    {yielded[k] : k \in 1..Len(yielded)} \cup
    (IF ppc = "file" /\ current_session # None THEN {Get(current_session)} ELSE {})

\* a token with a leading '#' or '@', among the identities of the inputs
IsChannelToken(tok) == tok \in {"#chan", "@ops"}

\* C23: the target identity of a session is the one derived from the file
\* name unless a Session Ident marker changed it, which happens only in a
\* file that is no channel file and never with a channel name (leading '#'
\* or '@') or with 'Status' or 'Window'.
C23_IdentNeverNamesChannel ==
    \A s \in HeldSessions :
        \/ s.target_nick = extract_channel_info(s.source_file)[2]
        \/ /\ extract_channel_info(s.source_file)[1] = None
           /\ s.target_nick # None
           /\ ~IsChannelToken(Get(s.target_nick))
           /\ Get(s.target_nick) \notin {"Status", "Window"}

\* C24: every session of a file carries the channel and the network derived
\* from the file name, whatever lines were read; the session a start marker
\* opens has the target identity derived from the file name, also when a
\* Session Ident marker changed the target of the session before it; an
\* ident marker touches the open session only, and a session once yielded
\* is never altered.
C24_FileIdentityPerSession ==
    [][ /\ \A s \in HeldSessions' :
              /\ s.channel = extract_channel_info(s.source_file)[1]
              /\ s.network = extract_channel_info(s.source_file)[3]
        /\ (ReadsLine /\ IsStartLine(content'[Len(content')])) =>
              /\ current_session' # None
              /\ Get(current_session').target_nick = extract_channel_info(filepath)[2]
        /\ (ReadsLine /\ SESSION_IDENT_PATTERN(content'[Len(content')]) # None) =>
              /\ yielded' = yielded
              /\ (current_session = None) = (current_session' = None)
        /\ Len(yielded') >= Len(yielded)
        /\ \A k \in 1..Len(yielded) : yielded'[k] = yielded[k]
      ]_vars

\* in dm.EFnet.log an ident marker names carol in the first session; the
\* session yielded keeps carol and the second session starts with dm again
C24_Witness ==
    /\ ppc = "file"
    /\ filepath = "dm.EFnet.log"
    /\ content = <<L_START, L_IDENT, L_OTHER, L_START>>
    /\ Len(yielded) = 1
    /\ yielded[1].target_nick = Some("carol")
    /\ current_session # None
    /\ Get(current_session).target_nick = Some("dm")
    /\ Get(current_session).network = Some("EFnet")

\* the place of a nick in the order of str (by code point)
NickRank(n) ==
    CASE n = "al" -> 1 [] n = "alice" -> 2 [] n = "bob" -> 3 [] n = "carol" -> 4

\* C25: the participants of every session yielded are the nicks of the
\* messages of that session, each once, in ascending order: none is missing
\* and none comes from an earlier session of the file.
C25_ParticipantsOfOwnMessages ==
    \A k \in 1..Len(yielded) :
        LET ps == yielded[k].participants
            ms == yielded[k].messages
        IN  /\ {ps[j] : j \in 1..Len(ps)} = {ms[j].nick : j \in 1..Len(ms)}
            /\ \A a, b \in 1..Len(ps) : a < b => NickRank(ps[a]) < NickRank(ps[b])

\* bob, alice and bob again speak in one session: alice comes first, bob once
C25_Witness ==
    /\ ppc = "end"
    /\ Len(log_files) = 1
    /\ log_files[1].content = <<L_START, L_SELF, L_OTHER, L_SELF>>
    /\ Len(yielded) = 1
    /\ Len(yielded[1].messages) = 3
    /\ yielded[1].participants = <<"alice", "bob">>

\* the parser reads line l of the file it is in
LineRead(l) ==
    /\ ppc = "file"
    /\ Len(log_files') = Len(log_files)
    /\ content' = Append(content, l)

\* C26: a start marker whose timestamp has no accepted layout still opens a
\* session, with start_time unset; a close marker of that kind leaves the
\* session open with end_time unset; parsing goes on with the next line, a
\* message read afterwards is appended to that session, and at the end of
\* the file a session with messages is yielded whether its times are set
\* or not.
C26_BadTimestampDoesNotAbort ==
    [][ /\ LineRead(L_START_BAD) =>
              /\ ppc' = "file"
              /\ session_count' = session_count + 1
              /\ current_session' # None
              /\ Get(current_session').start_time = None
              /\ Get(current_session').end_time = None
              /\ Get(current_session').messages = <<>>
        /\ (LineRead(L_CLOSE_BAD) /\ current_session # None) =>
              /\ ppc' = "file"
              /\ current_session' # None
              /\ Get(current_session').end_time = None
              /\ Get(current_session').start_time = Get(current_session).start_time
              /\ Get(current_session').messages = Get(current_session).messages
        /\ (LineRead(L_OTHER) /\ current_session # None) =>
              /\ ppc' = "file"
              /\ current_session' # None
              /\ Get(current_session').start_time = Get(current_session).start_time
              /\ Get(current_session').end_time = Get(current_session).end_time
              /\ Len(Get(current_session').messages) =
                    Len(Get(current_session).messages) + 1
        /\ (ppc = "file" /\ ppc' # "file" /\ current_session # None
             /\ Get(current_session).messages # <<>>) =>
              /\ Len(yielded') = Len(yielded) + 1
              /\ yielded'[Len(yielded')].start_time = Get(current_session).start_time
              /\ yielded'[Len(yielded')].end_time = Get(current_session).end_time
              /\ yielded'[Len(yielded')].messages = Get(current_session).messages
      ]_vars

\* a session opened and closed by markers without a readable timestamp is
\* yielded with its two messages and without times
C26_Witness ==
    /\ ppc = "end"
    /\ Len(log_files) = 1
    /\ log_files[1].content = <<L_START_BAD, L_OTHER, L_CLOSE_BAD, L_OTHER>>
    /\ Len(yielded) = 1
    /\ yielded[1].start_time = None
    /\ yielded[1].end_time = None
    /\ Len(yielded[1].messages) = 2
    /\ Len(out) = 1

--------------------------------------------------------------------------
(* Properties of the chunk boundaries and the chunk fields *)

\* the sizes of the chunks that the count limit and the character budget
\* alone give for the messages from k on, n messages of chars characters
\* (each with its newline) being in the buffer
RECURSIVE SizeOnlyChunks(_, _, _)
SizeOnlyChunks(k, n, chars) ==
    IF k > Len(messages)
    THEN IF n > 0 THEN <<n>> ELSE <<>>
    ELSE LET c == Len(messages[k].nick) + 2 + messages[k].text + 1
         IN  IF n > 0 /\ (n >= 20 \/ chars + c > 8000)
             THEN <<n>> \o SizeOnlyChunks(k + 1, 1, c)
             ELSE SizeOnlyChunks(k + 1, n + 1, chars + c)

\* chunk j is full: it holds 20 messages, or its text with one more newline
\* and the line of next is longer than 8000 characters
SizeReason(j, next) ==
    \/ chunks[j].message_count >= 20
    \/ CharLen(chunks[j].text) + 1 + (Len(next.nick) + 2 + next.text + 1) > 8000

\* C27: where the session has no start date, or the time of one of the two
\* messages on either side of a chunk boundary is no valid hour:minute, the
\* boundary is there because the chunk before it is full; and a session
\* without a start date yields exactly the chunks that the count limit and
\* the character budget alone give.
C27_TimeCheckFailsOpen ==
    /\ \A j \in 1..(Len(chunks) - 1) :
          LET prev == Last(ChunkSegment(j))
              next == ChunkSegment(j + 1)[1]
          IN  (~HasSessionDate(session) \/ ~Parseable(prev.time) \/ ~Parseable(next.time))
              => SizeReason(j, next)
    /\ (ChunkDone /\ ~HasSessionDate(session)) =>
          [j \in 1..Len(chunks) |-> chunks[j].message_count] = SizeOnlyChunks(1, 0, 0)

\* a session without a readable start date: 25 messages one minute apart,
\* then one at 10:00; the second chunk holds the last six, the step of more
\* than 30 minutes inside it
C27_Witness ==
    /\ ChunkDone
    /\ session.start_time = Some([iso |-> FALSE, year |-> 0])
    /\ Len(messages) = 26
    /\ Len(chunks) = 2
    /\ chunks[1].message_count = 20
    /\ chunks[2].message_count = 6
    /\ Parseable(messages[25].time) /\ Parseable(messages[26].time)
    /\ RolloverGap(messages[25].time, messages[26].time) > 30

\* C28: between two consecutive chunks there is a reason for the flush: the
\* earlier chunk holds 20 messages already, or its characters (one newline
\* counted per message) with those of the first message of the later chunk
\* exceed 8000, or that message comes more than 30 minutes after the last
\* message of the earlier chunk.
C28_EveryBoundaryHasReason ==
    \A j \in 1..(Len(chunks) - 1) :
        LET prev == Last(ChunkSegment(j))
            next == ChunkSegment(j + 1)[1]
        IN  SizeReason(j, next) \/ GapExceeds(session, prev, next)

\* a dated session of 25 messages one minute apart and one at 10:00: the
\* first boundary is there for the count alone, the second for the gap alone
C28_Witness ==
    /\ ChunkDone
    /\ HasSessionDate(session)
    /\ Len(messages) = 26
    /\ Len(chunks) = 3
    /\ chunks[1].message_count = 20
    /\ ~GapExceeds(session, messages[20], messages[21])
    /\ chunks[2].message_count = 5
    /\ ~SizeReason(2, messages[26])
    /\ GapExceeds(session, messages[25], messages[26])

\* C29: a chunk's message_count is the number of messages it holds and the
\* number of lines of its text (the lines are joined by newlines, none at
\* the end), line k being "nick: text" of its message k; its participants
\* are the nicks of exactly those messages, each once, in ascending order;
\* its start_time and end_time are the time strings of its first and last
\* message as they stand.
C29_ChunkFieldsOfItsMessages ==
    \A j \in 1..Len(chunks) :
        LET seg == ChunkSegment(j)
            c == chunks[j]
        IN  /\ c.message_count = Len(seg)
            /\ c.message_count = Len(c.text)
            /\ \A k \in 1..Len(seg) :
                  c.text[k] = [nick |-> seg[k].nick, text |-> seg[k].text]
            /\ CharLen(c.text) =
                  SumSeq([k \in 1..Len(seg) |-> Len(seg[k].nick) + 2 + seg[k].text])
                  + (Len(seg) - 1)
            /\ {c.participants[k] : k \in 1..Len(c.participants)} =
                  {seg[k].nick : k \in 1..Len(seg)}
            /\ \A a, b \in 1..Len(c.participants) :
                  a < b => NickRank(c.participants[a]) < NickRank(c.participants[b])
            /\ c.start_time = Some(seg[1].time)
            /\ c.end_time = Some(seg[Len(seg)].time)

\* bob, al and bob again in one chunk, the last time being 99:99: al comes
\* first among the participants, bob once, and end_time is 99:99 as written
C29_Witness ==
    /\ ChunkDone
    /\ Len(chunks) = 1
    /\ chunks[1].message_count = 3
    /\ messages[1].nick = "bob" /\ messages[2].nick = "al" /\ messages[3].nick = "bob"
    /\ chunks[1].participants = <<"al", "bob">>
    /\ chunks[1].start_time = Some(<<0, 10>>)
    /\ chunks[1].end_time = Some(<<99, 99>>)

\* C30: every chunk of a session carries the year of the session's start
\* timestamp and the decade floor(year / 10) * 10 followed by "s" (2003
\* gives "2000s", 1999 gives "1990s"), or no year and no decade when the
\* session has no start timestamp that parses; and session_id, source_file,
\* channel, target_nick and network are those of the session.
C30_YearDecadeAndIdentityCopied ==
    \A j \in 1..Len(chunks) :
        LET c == chunks[j]
            y == Get(session.start_time).year
        IN  /\ IF HasSessionDate(session)
               THEN /\ c.year = Some(y)
                    /\ c.decade = Some(<<y - (y % 10), "s">>)
               ELSE /\ c.year = None
                    /\ c.decade = None
            /\ c.year = chunks[1].year
            /\ c.decade = chunks[1].decade
            /\ c.session_id = session.session_id
            /\ c.source_file = session.source_file
            /\ c.channel = session.channel
            /\ c.target_nick = session.target_nick
            /\ c.network = session.network

\* a session started in 1999 with three chunks, all of the 1990s
C30_Witness ==
    /\ ChunkDone
    /\ session.start_time = Some([iso |-> TRUE, year |-> 1999])
    /\ Len(chunks) = 3
    /\ \A j \in 1..3 : chunks[j].year = Some(1999) /\ chunks[j].decade = Some(<<1990, "s">>)
    /\ chunks[3].target_nick = Some("dm")
    /\ chunks[3].session_id = "dm_0001"

--------------------------------------------------------------------------
(* Properties of the identity of a session *)

\* the name of the file starts with '#' or '@'
IsChannelFile(path) ==
    path \in {"#chan.EFnet.log", "@ops.EFnet.log", "#1009689464.log"}

\* C31: while a file is parsed, and in every session open or yielded,
\* exactly one of channel and target_nick is set: a file whose name starts
\* with '#' or '@' has the channel set and no target_nick, whatever Session
\* Ident markers it holds, and any other file has no channel and a
\* target_nick.
C31_ChannelXorTargetNick ==
    /\ ppc = "file" =>
          IF IsChannelFile(filepath)
          THEN channel # None /\ target_nick = None
          ELSE channel = None /\ target_nick # None
    /\ \A s \in HeldSessions :
          IF IsChannelFile(s.source_file)
          THEN s.channel # None /\ s.target_nick = None
          ELSE s.channel = None /\ s.target_nick # None

\* @ops.EFnet.log with an ident marker that names carol: the session is
\* yielded with the channel @ops and without a target_nick
C31_Witness ==
    /\ ppc = "end"
    /\ Len(log_files) = 1
    /\ log_files[1].path = "@ops.EFnet.log"
    /\ log_files[1].content = <<L_START, L_IDENT, L_OTHER>>
    /\ Len(yielded) = 1
    /\ yielded[1].channel = Some("@ops")
    /\ yielded[1].target_nick = None

==========================================================================
